---- MODULE Spec2Model ----
(***************************************************************************)
(* Streaming partitioned upsert engine of workcomp-rates-etl.              *)
(*                                                                         *)
(*   ETL1 (src/ETL/etl1_scalable.py): identity hashes, staging files and   *)
(*        their compaction (merge_temp_files).                             *)
(*   ETL3 (src/ETL/ETL_3.py, src/ETL/utils/s3_etl_utils.py): enrichment,   *)
(*        partition keys, S3 paths and the idempotent partition write.     *)
(*   scripts/patch_merge_temp_files_batched.py: batched compaction.        *)
(*                                                                         *)
(* Conventions.  A Python str is a sequence of one-character strings, so   *)
(* that slicing, replacing and joining are computed as the code computes   *)
(* them.  Python None / a polars null is the value None below.  A polars   *)
(* DataFrame is a record [columns, dtypes, rows]: the ordered column       *)
(* names, the dtype of each column and the rows (records over the column   *)
(* names) in frame order.  A Float64 rate is an integer number of 1e-5     *)
(* units.  md5 is modelled as an injective tagging of its argument (hash   *)
(* collisions are not modelled).                                           *)
(***************************************************************************)
EXTENDS Integers, Sequences, FiniteSets, TLC

VARIABLES
    \* ---- run_etl3_pipeline (ETL_3.py) ------------------------------------
    fact_rate,          \* the source fact table (rows of gold/fact_rate.parquet)
    xrefs,              \* names of the cross-reference tables that were loaded
    chunk_size,         \* config.CHUNK_SIZE
    chunk_idx,          \* loop variable of the chunk loop
    run,                \* number of completed pipeline runs
    store,              \* the object store: S3 path -> DataFrame
    processed_rows,     \* summary counter of the current run
    total_partitions,   \* summary counter of the current run
    first_run_store,    \* history: the store when the first run ended
    faults,             \* what the environment of the run makes raise
    chunk_log,          \* history: one entry per iteration of the chunk loop
    summary,            \* what the last call gave: the dict returned, or the raise
    athena,             \* the wait for the Athena query: the sleeps made so far
    \* ---- function-level specifications --------------------------------------
    \* ---- ScalableETL1.merge_temp_files (etl1_scalable.py) ------------------
    temp_files,         \* the staging files the glob found, in list order
    temp_dir,           \* the files in temp_chunks: chunk and batch numbers
    batch_num,          \* loop variable of the batch loop
    intermediate_files, \* the intermediate batch files written so far
    output_files,       \* the final file at output_path: none or one
    merge_reads,        \* history: the number of files each merge step read
    \* ---- ScalableETL1.run_pipeline (etl1_scalable.py) ----------------------
    rates_file,         \* the rates input file: its rows, or None if it is missing
    providers_file,     \* the providers input file, likewise
    staging,            \* the files in temp_chunks: <<table, chunk>> -> rows
    outputs,            \* the final output files: table -> row -> count
    etl1_run,           \* position, loop variable, counters and log of the run
    \* ---- UnifiedETLPipeline.run (run_unified_etl_pipeline.py) --------------
    unified,            \* configuration, position and stage results of the run
    \* ---- two runs writing one partition (ETL_3.py) -------------------------
    writers,            \* position and local frames of each writer
    \* ---- function-level specifications --------------------------------------
    pc,                 \* position of the function-level specifications
    arg,                \* the inputs drawn for the function under study
    ret,                \* what the function returned
    \* ---- the file-removal retries (etl1_scalable.py, cleanup_locked_files.py)
    removal,            \* the file, and position and counters of the call
    \* ---- the interpreter ---------------------------------------------------
    hashseed            \* the string hash seed of the process (PYTHONHASHSEED)

etl3vars == <<fact_rate, xrefs, chunk_size, chunk_idx, run, store,
              processed_rows, total_partitions, first_run_store,
              faults, chunk_log, summary, athena>>
etl1vars == <<temp_files, temp_dir, batch_num, intermediate_files, output_files,
              merge_reads>>
runvars  == <<rates_file, providers_file, staging, outputs, etl1_run, unified,
              writers>>
fnvars   == <<pc, arg, ret, removal, hashseed>>
vars     == <<fact_rate, xrefs, chunk_size, chunk_idx, run, store,
              processed_rows, total_partitions, first_run_store,
              faults, chunk_log, summary, athena,
              temp_files, temp_dir, batch_num, intermediate_files, output_files,
              merge_reads, rates_file, providers_file, staging, outputs, etl1_run,
              unified, writers, pc, arg, ret, removal, hashseed>>

-----------------------------------------------------------------------------
(* Bounds of the model *)

\* longest source fact table
MaxRows == 3
\* pipeline runs against the same target
MaxRuns == 2

-----------------------------------------------------------------------------
(* Strings *)

None == <<"None">>

NULL_SENTINEL == <<"_","_","N","U","L","L","_","_">>

\* a sequence given by a rule [i \in 1..n |-> e], as an explicit list
AsList(s) == s \o <<>>

RECURSIVE Flatten(_)
Flatten(ss) == IF ss = <<>> THEN <<>> ELSE Head(ss) \o Flatten(Tail(ss))

\* sep.join(parts)
RECURSIVE Join(_, _)
Join(sep, parts) ==
    IF parts = <<>> THEN <<>>
    ELSE IF Len(parts) = 1 THEN parts[1]
    ELSE parts[1] \o sep \o Join(sep, Tail(parts))

\* s[a : a + n] with Python / polars str.slice clipping
Slice(s, a, n) ==
    LET lo == IF a + 1 > Len(s) + 1 THEN Len(s) + 1 ELSE a + 1
        hi == IF a + n > Len(s) THEN Len(s) ELSE a + n
    IN  SubSeq(s, lo, hi)

\* s.replace(old, new) for one-character old and new
Replace(s, old, new) ==
    AsList([i \in 1..Len(s) |-> IF s[i] = old THEN new ELSE s[i]])

\* s.zfill(2): the zeros go after a leading sign
Zfill2(s) == IF Len(s) >= 2 THEN s
             ELSE IF Len(s) = 0 THEN <<"0","0">>
             ELSE IF s[1] \in {"+", "-"} THEN s \o <<"0">>
             ELSE <<"0">> \o s

\* byte order of the characters the model uses (polars sorts strings by bytes)
Alphabet == <<" ", "-", ".", "/", "0", "1", "2", "3", "4", "5", "6", "7", "8",
              "9", "=", "A", "G", "L", "N", "U", "X", "\\", "_", "a", "b", "c",
              "d", "e", "g", "h", "i", "l", "m", "n", "o", "p", "q", "r", "s",
              "t", "u", "v", "w", "x", "y", "z", "|">>

CharRank(c) == CHOOSE i \in 1..Len(Alphabet) : Alphabet[i] = c

RECURSIVE StrLess(_, _)
StrLess(a, b) ==
    IF b = <<>> THEN FALSE
    ELSE IF a = <<>> THEN TRUE
    ELSE IF a[1] = b[1] THEN StrLess(Tail(a), Tail(b))
    ELSE CharRank(a[1]) < CharRank(b[1])

Digit(d) == <<"0","1","2","3","4","5","6","7","8","9">>[d + 1]

RECURSIVE Digits(_)
Digits(n) == IF n < 10 THEN <<Digit(n)>> ELSE Digits(n \div 10) \o <<Digit(n % 10)>>

-----------------------------------------------------------------------------
(* IdentityDeriver: etl1_scalable.py *)

\* hashlib.md5(s).hexdigest(), injective on the strings of the model
md5(s) == <<"m","d","5",":">> \o s

\* _co: None -> "", anything else -> str(x)
\* str(x) without the None test: None would become the text "None"
CoUnguarded(x) == IF x = None THEN <<"N","o","n","e">> ELSE x

Co(x) == IF x = None THEN <<>> ELSE x

\* f"{v:.4f}" of a Float64 holding v5 * 1e-5 (v5 >= 0, v5 % 10 # 5: no tie)
FormatFixed4(v5) ==
    LET r == (v5 + 5) \div 10
        f == r % 10000
    IN  Digits(r \div 10000) \o <<".">>
          \o <<Digit(f \div 1000), Digit((f \div 100) % 10),
               Digit((f \div 10) % 10), Digit(f % 10)>>

\* a Float64 value of v5 * 1e-5, and the number of 1e-5 units it holds
F64(v5) == <<"f64", v5>>
V5(x) == x[2]

\* f"{float(rate_val):.4f}" if rate_val is not None else ""
RateStr(rate_val) == IF rate_val = None THEN <<>> ELSE FormatFixed4(V5(rate_val))

fact_uid_from_struct(s) ==
    LET rate_str == RateStr(s.negotiated_rate)
        parts == << Co(s.state), Co(s.year_month), Co(s.payer_slug),
                    Co(s.billing_class), Co(s.code_type), Co(s.code),
                    Co(s.pg_uid), Co(s.pos_set_id), Co(s.negotiated_type),
                    Co(s.negotiation_arrangement), Co(s.expiration_date),
                    rate_str, Co(s.provider_group_id_raw) >>
    IN  md5(Join(<<"|">>, parts))

-----------------------------------------------------------------------------
(* polars DataFrames *)

Range(s) == {s[i] : i \in 1..Len(s)}

HasCol(df, c) == c \in Range(df.columns)

\* df.with_columns(<expression>.alias(name)); values holds the value of the
\* expression for every row
WithColumn(df, name, dtype, values) ==
    [columns |-> IF HasCol(df, name) THEN df.columns ELSE Append(df.columns, name),
     dtypes  |-> (name :> dtype) @@ df.dtypes,
     rows    |-> AsList([i \in 1..Len(df.rows) |-> (name :> values[i]) @@ df.rows[i]])]

\* pl.lit(value): the same value for every row
Lit(df, value) == [i \in 1..Len(df.rows) |-> value]

\* pl.when(pl.col(src).is_null()).then(pl.lit(value)).otherwise(pl.col(src))
WhenNull(df, src, value) ==
    [i \in 1..Len(df.rows) |->
        IF df.rows[i][src] = None THEN value ELSE df.rows[i][src]]

\* pl.col(src)
Col(df, src) == [i \in 1..Len(df.rows) |-> df.rows[i][src]]

\* df.select(cols)
Select(df, cols) ==
    [columns |-> cols,
     dtypes  |-> [c \in Range(cols) |-> df.dtypes[c]],
     rows    |-> AsList([i \in 1..Len(df.rows) |->
                            LET r == df.rows[i] IN [c \in Range(cols) |-> r[c]]])]

\* the rows at the positions keep, in frame order
RECURSIVE Pick(_, _, _)
Pick(rows, keep, i) ==
    IF i > Len(rows) THEN <<>>
    ELSE (IF i \in keep THEN <<rows[i]>> ELSE <<>>) \o Pick(rows, keep, i + 1)

\* df.filter(<expression>); mask holds the value of the expression for every row
Filter(df, mask) ==
    [df EXCEPT !.rows = Pick(df.rows, {i \in 1..Len(df.rows) : mask[i]}, 1)]

\* df.slice(offset, length)
SliceRows(rows, offset, length) ==
    SubSeq(rows, offset + 1,
           IF offset + length > Len(rows) THEN Len(rows) ELSE offset + length)

\* the name a right-hand column gets in a join
JoinName(left, c, suffix) == IF HasCol(left, c) THEN c \o suffix ELSE c

\* what an operator yields when the code it models raises: the exception, which
\* every later statement of the same try block passes on
Raised(name) == [error |-> name]
IsError(x) == "error" \in DOMAIN x

\* left.join(right, left_on=..., right_on=..., how='left', suffix=...): raises if
\* a key column is missing on either side; every
\* left row is kept, in order; a null key matches nothing; the right key columns
\* are dropped and a right column whose name the left frame has gets the suffix
LeftJoin(left, right, left_on, right_on, suffix) ==
    IF IsError(left) THEN left
    ELSE IF \E k \in 1..Len(left_on) :
                ~HasCol(left, left_on[k]) \/ ~HasCol(right, right_on[k])
    THEN Raised("ColumnNotFoundError")
    ELSE
    LET rcols == SelectSeq(right.columns, LAMBDA c : c \notin Range(right_on))
        names == AsList([i \in 1..Len(rcols) |-> JoinName(left, rcols[i], suffix)])
        Hit(l, r) == \A k \in 1..Len(left_on) :
                        /\ l[left_on[k]] # None
                        /\ l[left_on[k]] = r[right_on[k]]
        Glue(l, r) == [i \in 1..Len(names) |-> r[rcols[i]]]
        Miss(l)    == [i \in 1..Len(names) |-> None]
        Row(l, vals) == [c \in Range(names) \cup DOMAIN l |->
                            IF c \in DOMAIN l THEN l[c]
                            ELSE vals[CHOOSE j \in 1..Len(names) : names[j] = c]]
        For(l) == LET m == SelectSeq(right.rows, LAMBDA r : Hit(l, r))
                  IN  IF m = <<>> THEN <<Row(l, Miss(l))>>
                      ELSE AsList([j \in 1..Len(m) |-> Row(l, Glue(l, m[j]))])
    IN  [columns |-> left.columns \o names,
         dtypes  |-> [c \in Range(names) |->
                          LET i == CHOOSE j \in 1..Len(names) : names[j] = c
                          IN  right.dtypes[rcols[i]]] @@ left.dtypes,
         rows    |-> Flatten(AsList([i \in 1..Len(left.rows) |-> For(left.rows[i])]))]

\* the values of the columns cols of a row
KeyOf(cols, r) == AsList([i \in 1..Len(cols) |-> r[cols[i]]])

\* the positions unique(subset, keep='last') keeps: the last row of each key
LastOfKey(rows, subset) ==
    {i \in 1..Len(rows) :
        \A j \in (i + 1)..Len(rows) : KeyOf(subset, rows[j]) # KeyOf(subset, rows[i])}

\* df.unique(subset=subset, keep='last')
UniqueKeepLast(df, subset) ==
    [df EXCEPT !.rows = Pick(df.rows, LastOfKey(df.rows, subset), 1)]

\* the rows of a frame as a bag: row -> number of occurrences
Count(rows, r) == Cardinality({i \in 1..Len(rows) : rows[i] = r})
SameRows(a, b) ==
    /\ Len(a) = Len(b)
    /\ \A i \in 1..Len(a) : Count(a, a[i]) = Count(b, a[i])

-----------------------------------------------------------------------------
(* ReferenceCatalog: the dimension and cross-reference tables ETL3 loads once *)
(* per run.  Two provider groups: pg1 has two NPIs of one taxonomy and one    *)
(* location, pg2 has two NPIs of different taxonomies.                        *)

Utf8(cols) == [c \in Range(cols) |-> "str"]

Table(cols, rows) == [columns |-> cols, dtypes |-> Utf8(cols), rows |-> rows]

DimCode ==
    Table(<<"code_type", "code", "code_description">>,
          << [code_type |-> <<"t">>, code |-> <<"c">>, code_description |-> <<"d">>] >>)

DimCodeCat ==
    Table(<<"proc_cd", "proc_set", "proc_class">>,
          << [proc_cd |-> <<"c">>, proc_set |-> <<"s">>, proc_class |-> <<"l">>] >>)

DimPayer ==
    Table(<<"payer_slug", "reporting_entity_name", "version">>,
          << [payer_slug |-> <<"p">>, reporting_entity_name |-> <<"e">>,
              version |-> <<"v">>] >>)

DimProviderGroup ==
    Table(<<"pg_uid", "payer_slug", "provider_group_id_raw", "version">>,
          << [pg_uid |-> <<"g","1">>, payer_slug |-> <<"p">>,
              provider_group_id_raw |-> <<"r">>, version |-> <<"v">>],
             [pg_uid |-> <<"g","2">>, payer_slug |-> <<"p">>,
              provider_group_id_raw |-> <<"r">>, version |-> <<"v">>] >>)

DimPosSet ==
    Table(<<"pos_set_id", "pos_members">>,
          << [pos_set_id |-> <<"o">>, pos_members |-> <<"1","1">>] >>)

DimNpi ==
    Table(<<"npi", "primary_taxonomy_code">>,
          << [npi |-> <<"n","1">>, primary_taxonomy_code |-> <<"x">>],
             [npi |-> <<"n","2">>, primary_taxonomy_code |-> <<"x">>],
             [npi |-> <<"n","3">>, primary_taxonomy_code |-> <<"x">>],
             [npi |-> <<"n","4">>, primary_taxonomy_code |-> <<"y">>] >>)

LOCATION == <<"L">>
MAILING  == <<"M">>

DimNpiAddressGeo ==
    Table(<<"npi", "address_purpose", "state", "county_name", "stat_area_name">>,
          << [npi |-> <<"n","1">>, address_purpose |-> LOCATION, state |-> <<"G","A">>,
              county_name |-> <<"c">>, stat_area_name |-> <<"a"," ","b">>],
             [npi |-> <<"n","1">>, address_purpose |-> MAILING, state |-> <<"A","L">>,
              county_name |-> <<"c">>, stat_area_name |-> <<"a">>],
             [npi |-> <<"n","2">>, address_purpose |-> LOCATION, state |-> <<"G","A">>,
              county_name |-> <<"c">>, stat_area_name |-> <<"a"," ","b">>],
             [npi |-> <<"n","3">>, address_purpose |-> LOCATION, state |-> <<"G","A">>,
              county_name |-> <<"c">>, stat_area_name |-> None],
             [npi |-> <<"n","4">>, address_purpose |-> LOCATION, state |-> <<"G","A">>,
              county_name |-> <<"c">>, stat_area_name |-> None] >>)

XrefPgMemberNpi ==
    Table(<<"pg_uid", "npi">>,
          << [pg_uid |-> <<"g","1">>, npi |-> <<"n","1">>],
             [pg_uid |-> <<"g","1">>, npi |-> <<"n","2">>],
             [pg_uid |-> <<"g","2">>, npi |-> <<"n","3">>],
             [pg_uid |-> <<"g","2">>, npi |-> <<"n","4">>] >>)

XrefPgMemberTin ==
    Table(<<"pg_uid", "tin_type", "tin_value">>,
          << [pg_uid |-> <<"g","1">>, tin_type |-> <<"e">>, tin_value |-> <<"1">>],
             [pg_uid |-> <<"g","2">>, tin_type |-> <<"e">>, tin_value |-> <<"2">>] >>)

\* config.validate() makes every dimension file a precondition of a run
Dimensions ==
    [code |-> DimCode, code_cat |-> DimCodeCat, payer |-> DimPayer,
     provider_group |-> DimProviderGroup, pos_set |-> DimPosSet, npi |-> DimNpi,
     npi_address_geo |-> DimNpiAddressGeo]

\* the column each reference table is joined on
JOIN_KEY ==
    [code |-> "code", code_cat |-> "proc_cd", payer |-> "payer_slug",
     provider_group |-> "pg_uid", pos_set |-> "pos_set_id", npi |-> "npi",
     npi_address_geo |-> "npi"]

\* pl.read_parquet(path) for every dimension: the frames have the columns the
\* files have, and the files named in no_key lack the column they are joined on
LoadDimensions(no_key) ==
    [n \in DOMAIN Dimensions |->
        IF n \in no_key
        THEN Select(Dimensions[n],
                    SelectSeq(Dimensions[n].columns, LAMBDA c : c # JOIN_KEY[n]))
        ELSE Dimensions[n]]

\* a cross-reference file is loaded only if it exists
Xrefs(loaded) ==
    [n \in loaded |-> IF n = "pg_member_npi" THEN XrefPgMemberNpi ELSE XrefPgMemberTin]

-----------------------------------------------------------------------------
(* PartitionKeyResolver: ETL_3.py extract_partition_keys *)

\* pl.col(src).alias(key) without the is_null test: a null would pass through
KeyFromUnchecked(has, df, key, src) ==
    IF has THEN WithColumn(df, key, "str", Col(df, src))
    ELSE WithColumn(df, key, "str", Lit(df, NULL_SENTINEL))

\* pl.when(pl.col(src).is_null()).then(pl.lit('__NULL__')).otherwise(pl.col(src))
\* if the enriched frame has the column (has), pl.lit('__NULL__') otherwise
KeyFrom(has, df, key, src) ==
    IF has
    THEN WithColumn(df, key, "str", WhenNull(df, src, NULL_SENTINEL))
    ELSE WithColumn(df, key, "str", Lit(df, NULL_SENTINEL))

\* the state key taken from the fact table only
StateFromFact(has_geo, has_state, df) == KeyFrom(has_state, df, "state", "state")

\* the state key: from state_geo if the frame has that column, else from the
\* state column of the fact table if it has that one, else the sentinel
StateFrom(has_geo, has_state, df) ==
    IF has_geo THEN KeyFrom(TRUE, df, "state", "state_geo")
    ELSE KeyFrom(has_state, df, "state", "state")

\* the year and month columns: slices of year_month, the sentinel for a null
YearMonth(df) ==
    IF HasCol(df, "year_month")
    THEN LET Part(a, n) ==
                 [i \in 1..Len(df.rows) |->
                     IF df.rows[i].year_month = None THEN NULL_SENTINEL
                     ELSE Slice(df.rows[i].year_month, a, n)]
         IN  WithColumn(WithColumn(df, "year", "str", Part(0, 4)),
                        "month", "str", Part(5, 2))
    ELSE WithColumn(WithColumn(df, "year", "str", Lit(df, NULL_SENTINEL)),
                    "month", "str", Lit(df, NULL_SENTINEL))

\* .str.slice on a column that is not a string column raises
ExtractRaises(df) == HasCol(df, "year_month") /\ df.dtypes["year_month"] # "str"

\* the except branch: every partition key is the sentinel
ExtractFallback(df) ==
    LET S(d, k) == WithColumn(d, k, "str", Lit(d, NULL_SENTINEL))
    IN  S(S(S(S(S(S(S(S(S(df, "year"), "month"), "payer_slug"), "state"),
        "billing_class"), "procedure_set"), "procedure_class"),
        "primary_taxonomy_code"), "stat_area_name")

extract_partition_keys(enriched_df) ==
    IF ExtractRaises(enriched_df) THEN ExtractFallback(enriched_df)
    ELSE LET Has(c) == HasCol(enriched_df, c)
             d1 == YearMonth(enriched_df)
             d2 == KeyFrom(Has("payer_slug"), d1, "payer_slug", "payer_slug")
             d3 == StateFrom(Has("state_geo"), Has("state"), d2)
             d4 == KeyFrom(Has("billing_class"), d3, "billing_class", "billing_class")
             d5 == KeyFrom(Has("proc_set"), d4, "procedure_set", "proc_set")
             d6 == KeyFrom(Has("proc_class"), d5, "procedure_class", "proc_class")
             d7 == KeyFrom(Has("primary_taxonomy_code"), d6,
                           "primary_taxonomy_code", "primary_taxonomy_code")
         IN  KeyFrom(Has("stat_area_name"), d7, "stat_area_name", "stat_area_name")

\* ETL3Config.PARTITION_COLUMNS (the default list)
PARTITION_COLUMNS ==
    <<"payer_slug", "state", "billing_class", "procedure_set", "procedure_class",
      "primary_taxonomy_code", "stat_area_name", "year", "month">>

-----------------------------------------------------------------------------
(* Enricher: ETL_3.py _enrich_fact_table *)

\* the joins of pg_member_npi and dim_npi, made when the xref is loaded
JoinNpi(e5, dimensions, xs) ==
    IF "pg_member_npi" \in DOMAIN xs
    THEN LeftJoin(LeftJoin(e5, xs["pg_member_npi"], <<"pg_uid">>, <<"pg_uid">>, "_right"),
                  dimensions.npi, <<"npi">>, <<"npi">>, "_right")
    ELSE e5

\* the join of pg_member_tin, made when the xref is loaded
JoinTin(e6, xs) ==
    IF "pg_member_tin" \in DOMAIN xs
    THEN LeftJoin(e6, xs["pg_member_tin"], <<"pg_uid">>, <<"pg_uid">>, "_right")
    ELSE e6

\* the join of the location addresses, made when the frame has an npi column
JoinGeo(e7, dimensions) ==
    LET location_addresses ==
            Select(Filter(dimensions.npi_address_geo,
                          [i \in 1..Len(dimensions.npi_address_geo.rows) |->
                              dimensions.npi_address_geo.rows[i].address_purpose
                                  = LOCATION]),
                   <<"npi", "state", "county_name", "stat_area_name">>)
    IN  IF IsError(e7) THEN e7
        ELSE IF HasCol(e7, "npi")
        THEN LeftJoin(e7, location_addresses, <<"npi">>, <<"npi">>, "_geo")
        ELSE e7

\* enriched = extract_partition_keys(enriched), unless a join has raised
WithPartitionKeys(e8) == IF IsError(e8) THEN e8 ELSE extract_partition_keys(e8)

_enrich_fact_table(fact, dimensions, xs) ==
    LET e1 == LeftJoin(fact, dimensions.code, <<"code_type", "code">>,
                       <<"code_type", "code">>, "_right")
        e2 == LeftJoin(e1, dimensions.code_cat, <<"code">>, <<"proc_cd">>, "_right")
        e3 == LeftJoin(e2, dimensions.payer, <<"payer_slug">>, <<"payer_slug">>, "_right")
        e4 == LeftJoin(e3, dimensions.provider_group, <<"pg_uid">>, <<"pg_uid">>, "_right")
        e5 == LeftJoin(e4, dimensions.pos_set, <<"pos_set_id">>, <<"pos_set_id">>, "_right")
    IN  WithPartitionKeys(JoinGeo(JoinTin(JoinNpi(e5, dimensions, xs), xs), dimensions))

-----------------------------------------------------------------------------
(* PathEncoder: s3_etl_utils.py S3PartitionedETL.create_s3_path *)

S3_BUCKET == <<"b","k">>
S3_PREFIX == <<"p","d">>

\* the characters of a column name
NameChars(dim) ==
    CASE dim = "payer_slug"       -> <<"p","a","y","e","r","_","s","l","u","g">>
      [] dim = "state"            -> <<"s","t","a","t","e">>
      [] dim = "billing_class"    -> <<"b","i","l","l","i","n","g","_","c","l","a","s","s">>
      [] dim = "procedure_set"    -> <<"p","r","o","c","e","d","u","r","e","_","s","e","t">>
      [] dim = "procedure_class"  -> <<"p","r","o","c","e","d","u","r","e","_","c","l","a","s","s">>
      [] dim = "taxonomy"         -> <<"t","a","x","o","n","o","m","y">>
      [] dim = "stat_area_name"   -> <<"s","t","a","t","_","a","r","e","a","_","n","a","m","e">>
      [] dim = "year"             -> <<"y","e","a","r">>
      [] dim = "month"            -> <<"m","o","n","t","h">>

\* the business dimensions create_s3_path walks, in path order
PATH_DIMS ==
    <<"payer_slug", "state", "billing_class", "procedure_set", "procedure_class",
      "taxonomy", "stat_area_name">>

FILE_NAME ==
    <<"f","a","c","t","_","r","a","t","e","_","e","n","r","i","c","h","e","d",
      ".","p","a","r","q","u","e","t">>

\* dict.get(key) / dict.get(key, default)
Get(d, k, default) == IF k \in DOMAIN d THEN d[k] ELSE default

\* str(value).replace("/", "_").replace("\\", "_").replace(" ", "_")
Sanitize(value) == Replace(Replace(Replace(value, "/", "_"), "\\", "_"), " ", "_")

\* a Python int, as a value of a partition key
PyInt(n) == <<"int", n>>
IsPyInt(x) == Len(x) = 2 /\ x[1] = "int"

\* isinstance(x, str)
IsStr(x) == x # None /\ ~IsPyInt(x)

\* str(x) of a string, an int or None
Str(x) == IF x = None THEN <<"N","o","n","e">>
          ELSE IF ~IsPyInt(x) THEN x
          ELSE IF x[2] < 0 THEN <<"-">> \o Digits(-x[2]) ELSE Digits(x[2])

\* datetime.now(), read only when the key has no year / month
NOW_YEAR  == PyInt(2026)
NOW_MONTH == PyInt(10)

\* month.zfill(2) of a string, f"{month:02d}" of an int; the format raises
\* TypeError for None
MonthStr(month) ==
    IF IsStr(month) THEN Zfill2(month)
    ELSE IF month = None THEN Raised("TypeError")
    ELSE IF month[2] < 0 \/ month[2] > 9 THEN Str(month) ELSE <<"0">> \o Str(month)

\* one "dim=value" segment of a business dimension
DimSegment(partition_values, dim) ==
    LET v == Get(partition_values, dim, None)
        value == IF v = None THEN <<"n","u","l","l">> ELSE v
    IN  NameChars(dim) \o <<"=">> \o Sanitize(Str(value))

create_s3_path(partition_values, prefix) ==
    LET path_parts == <<prefix>>
            \o AsList([i \in 1..Len(PATH_DIMS) |->
                          DimSegment(partition_values, PATH_DIMS[i])])
        year  == Get(partition_values, "year", NOW_YEAR)
        month == Get(partition_values, "month", NOW_MONTH)
    IN  IF month = None THEN MonthStr(month)
        ELSE <<"s","3",":","/","/">> \o S3_BUCKET \o <<"/">>
               \o Join(<<"/">>,
                       path_parts \o << NameChars("year") \o <<"=">> \o Str(year),
                                        NameChars("month") \o <<"=">>
                                            \o MonthStr(month) >>)
               \o <<"/">> \o FILE_NAME

-----------------------------------------------------------------------------
(* PartitionMerger: ETL_3.py merge_partition_data, write_partition_idempotent *)

\* df.with_row_index('row_id', offset): a UInt32 column in front
WithRowIndex(df, offset) ==
    [columns |-> <<"row_id">> \o df.columns,
     dtypes  |-> ("row_id" :> "u32") @@ df.dtypes,
     rows    |-> AsList([i \in 1..Len(df.rows) |->
                            ("row_id" :> (offset + i - 1)) @@ df.rows[i]])]

\* df.drop(col)
Drop(df, col) ==
    Select(df, SelectSeq(df.columns, LAMBDA c : c # col))

\* most string hash seeds a call is checked with, less one
MaxHashSeed == 5

\* the order in which a set of strings is listed, which follows the hashes of
\* the strings and so the hash seed of the process: position seed % n of the
\* names left comes next, with seed \div n for the rest
RECURSIVE SetOrder(_, _)
SetOrder(names, seed) ==
    IF names = <<>> THEN <<>>
    ELSE LET k == (seed % Len(names)) + 1
         IN  <<names[k]>>
                 \o SetOrder(SelectSeq(names, LAMBDA c : c # names[k]),
                             seed \div Len(names))

\* list(set(a.columns) & set(b.columns)): the names both frames have, in the
\* order of a Python set; both frames are selected in that one order
CommonColumns(a, b) ==
    SetOrder(SelectSeq(a.columns, LAMBDA c : HasCol(b, c)), hashseed)

\* pl.concat([a, b]) raises unless both frames have the same columns, in the
\* same order, with the same dtypes
ConcatRaises(a, b) ==
    \/ a.columns # b.columns
    \/ \E c \in Range(a.columns) : a.dtypes[c] # b.dtypes[c]

\* The opposite rule, which the code does not use: the first row of each key
\* would be kept and existing rows would win. It is no part of the program;
\* it is what DedupKeepLast is set against
FirstOfKey(rows, subset) ==
    {i \in 1..Len(rows) :
        \A j \in 1..(i - 1) : KeyOf(subset, rows[j]) # KeyOf(subset, rows[i])}

\* keep='first' in place of the keep='last' of the code
DedupKeepFirst(combined_data, dedup_key) ==
    [combined_data EXCEPT !.rows =
        Pick(combined_data.rows, FirstOfKey(combined_data.rows, dedup_key), 1)]

\* combined_data.unique(subset=dedup_key, keep='last')
DedupKeepLast(combined_data, dedup_key) ==
    UniqueKeepLast(combined_data, dedup_key)

merge_partition_data(existing_data, new_data) ==
    LET mismatch == existing_data.columns # new_data.columns
        common_columns == CommonColumns(existing_data, new_data)
        e1 == IF mismatch THEN Select(existing_data, common_columns) ELSE existing_data
        n1 == IF mismatch THEN Select(new_data, common_columns) ELSE new_data
        e2 == IF ~ HasCol(e1, "row_id") THEN WithRowIndex(e1, 0) ELSE e1
        n2 == IF ~ HasCol(n1, "row_id") THEN WithRowIndex(n1, Len(e2.rows)) ELSE n1
        combined_data == [e2 EXCEPT !.rows = e2.rows \o n2.rows]
        dedup_key == IF HasCol(combined_data, "fact_uid") THEN <<"fact_uid">>
                     ELSE SelectSeq(combined_data.columns, LAMBDA c : c # "row_id")
        merged_data == DedupKeepLast(combined_data, dedup_key)
    IN  IF ConcatRaises(e2, n2)
        THEN n2        \* except: "Merge failed, returning new data only"
        ELSE IF HasCol(merged_data, "row_id") THEN Drop(merged_data, "row_id")
        ELSE merged_data

\* a store in which no partition is ever found
partition_never_exists(st, s3_path) == FALSE

\* s3_etl.partition_exists(s3_path)
partition_exists(st, s3_path) == s3_path \in DOMAIN st

\* write_partition_idempotent(partition_data, s3_path): the store it leaves
\* and whether it raised. io names the S3 call that fails during this call:
\* "head" (partition_exists), "get" (read_partition), "put"
\* (upload_partition_to_s3), or "ok" for none; the except clause logs and
\* re-raises, and nothing is uploaded before the failing call
write_partition_idempotent(st, partition_data, s3_path, io) ==
    IF io = "head" THEN [store |-> st, raised |-> TRUE]
    ELSE IF partition_exists(st, s3_path)
    THEN IF io = "get" THEN [store |-> st, raised |-> TRUE]
         ELSE LET merged_data == merge_partition_data(st[s3_path], partition_data)
              IN  IF io = "put" THEN [store |-> st, raised |-> TRUE]
                  ELSE [store  |-> [st EXCEPT ![s3_path] = merged_data],
                        raised |-> FALSE]
    ELSE IF io = "put" THEN [store |-> st, raised |-> TRUE]
         ELSE [store |-> (s3_path :> partition_data) @@ st, raised |-> FALSE]

-----------------------------------------------------------------------------
(* ChunkWriter: ETL_3.py _create_partitions_for_chunk *)

\* polars sorts nulls first, strings by bytes
ValueLess(a, b) ==
    IF a = None THEN b # None ELSE IF b = None THEN FALSE ELSE StrLess(a, b)

RowLess(a, b, cols) ==
    \E k \in 1..Len(cols) :
        /\ \A j \in 1..(k - 1) : a[cols[j]] = b[cols[j]]
        /\ ValueLess(a[cols[k]], b[cols[k]])

\* the rows of a set in .sort(cols) order
RECURSIVE SortRows(_, _)
SortRows(S, cols) ==
    IF S = {} THEN <<>>
    ELSE LET m == CHOOSE x \in S : \A y \in S \ {x} : RowLess(x, y, cols)
         IN  <<m>> \o SortRows(S \ {m}, cols)

\* chunk_data.select(partition_columns).unique().sort(partition_columns)
PartitionCombinations(chunk_data, partition_columns) ==
    SortRows(Range(Select(chunk_data, partition_columns).rows), partition_columns)

\* chunk_data.filter(_create_partition_filter(partition_row))
PartitionData(chunk_data, partition_row) ==
    Filter(chunk_data,
           [i \in 1..Len(chunk_data.rows) |->
               \A c \in DOMAIN partition_row : chunk_data.rows[i][c] = partition_row[c]])

\* the for loop over the partition combinations, from combination i on:
\* the store and the list created_partitions it ends with. io[i] is the S3 call
\* that fails while combination i is written; a write that raises is logged and
\* the loop continues with the next combination
RECURSIVE WritePartitions(_, _, _, _, _, _)
WritePartitions(st, chunk_data, combos, prefix, i, io) ==
    IF i > Len(combos) THEN [store |-> st, created |-> <<>>]
    ELSE LET s3_path == create_s3_path(combos[i], prefix)
             partition_data == PartitionData(chunk_data, combos[i])
             written == write_partition_idempotent(st, partition_data, s3_path, io[i])
             next == WritePartitions(written.store, chunk_data, combos, prefix,
                                     i + 1, io)
         IN  IF written.raised THEN next
             ELSE [next EXCEPT !.created = <<s3_path>> \o @]

UNKNOWN == <<"U","n","k","n","o","w","n">>

\* null_threshold of a partition column, in percent
NullThreshold(partition_col) ==
    IF partition_col = "stat_area_name" THEN 50
    ELSE IF partition_col = "primary_taxonomy_code" THEN 30
    ELSE 20

\* df.filter(pl.col(c) == v).height; v = None counts the nulls
CountWhere(df, c, v) == Cardinality({i \in 1..Len(df.rows) : df.rows[i][c] = v})

\* the issues the column loop of validate_partition_data appends
ColumnIssues(df, partition_columns) ==
    LET height == Len(df.rows)
    IN  {<<c, "missing">> : c \in {x \in Range(partition_columns) : ~HasCol(df, x)}}
        \cup {<<c, "default">> :
                c \in {x \in Range(partition_columns) :
                           /\ HasCol(df, x)
                           /\ 10 * CountWhere(df, x, UNKNOWN) > height}}
        \cup {<<c, "sentinel">> :
                c \in {x \in Range(partition_columns) :
                           /\ HasCol(df, x)
                           /\ 100 * CountWhere(df, x, NULL_SENTINEL)
                                  > NullThreshold(x) * height}}
        \cup {<<c, "null">> :
                c \in {x \in Range(partition_columns) :
                           /\ HasCol(df, x)
                           /\ 100 * CountWhere(df, x, None) > 5 * height}}

\* the issue of the distribution check, if any
DistributionIssues(df, partition_columns) ==
    IF Len(partition_columns) > 1
    THEN LET partition_combinations ==
                 Cardinality(Range(Select(df, partition_columns).rows))
         IN  IF \/ partition_combinations < 3 /\ Len(df.rows) > 10
                \/ partition_combinations < 2
             THEN {<<"*", "combinations">>}
             ELSE {}
    ELSE {}

\* validate_partition_data(df, config): raises ValueError when it found issues;
\* df.select(config.PARTITION_COLUMNS) raises when a column is missing
validate_partition_data(df, partition_columns) ==
    IF /\ Len(partition_columns) > 1
       /\ \E c \in Range(partition_columns) : ~HasCol(df, c)
    THEN Raised("ColumnNotFoundError")
    ELSE LET issues == ColumnIssues(df, partition_columns)
                         \cup DistributionIssues(df, partition_columns)
         IN  IF issues # {} THEN [error |-> "ValueError", issues |-> issues]
             ELSE [returned |-> TRUE]

\* no handler around the validator: a finding would leave the function
CaughtNone(v) == FALSE

\* except ValueError as e: the handler around validate_partition_data logs the
\* finding and goes on; any other exception leaves the function
Caught(v) == v.error = "ValueError"

\* _create_partitions_for_chunk(chunk_data, partition_columns, s3_etl,
\* s3_prefix, config): has_config is "config is not None"
_create_partitions_for_chunk(st, chunk_data, partition_columns, prefix, has_config, io) ==
    LET v == IF has_config THEN validate_partition_data(chunk_data, partition_columns)
             ELSE [returned |-> TRUE]
    IN  IF IsError(v) /\ ~Caught(v)
        THEN [store |-> st, created |-> <<>>, raised |-> TRUE]
        ELSE [raised |-> FALSE]
             @@ WritePartitions(st, chunk_data,
                                PartitionCombinations(chunk_data, partition_columns),
                                prefix, 1, io)

-----------------------------------------------------------------------------
(* The source fact table: rows as ETL1's process_fact_table writes them *)

FACT_COLUMNS ==
    <<"fact_uid", "state", "year_month", "payer_slug", "billing_class", "code_type",
      "code", "pg_uid", "pos_set_id", "negotiated_type", "negotiation_arrangement",
      "negotiated_rate", "expiration_date", "provider_group_id_raw",
      "reporting_entity_name">>

FactDtypes ==
    [c \in Range(FACT_COLUMNS) |-> IF c = "negotiated_rate" THEN "f64" ELSE "str"]

\* the business fields of a fact row of provider group pg with rate v5 * 1e-5
FactStruct(pg, v5) ==
    [state |-> <<"G","A">>, year_month |-> <<"2","0","2","5","-","0","8">>,
     payer_slug |-> <<"p">>, billing_class |-> <<"i">>, code_type |-> <<"t">>,
     code |-> <<"c">>, pg_uid |-> pg, pos_set_id |-> <<"o">>,
     negotiated_type |-> <<"n">>, negotiation_arrangement |-> <<"f">>,
     expiration_date |-> None, negotiated_rate |-> F64(v5),
     provider_group_id_raw |-> <<"r">>]

FactRow(pg, v5) ==
    LET s == FactStruct(pg, v5)
    IN  [fact_uid |-> fact_uid_from_struct(s), reporting_entity_name |-> <<"e">>] @@ s

\* rates 1.5, 1.50004 (the same to four decimals) and 2.5
Rates == {150000, 150004, 250000}
PgUids == {<<"g","1">>, <<"g","2">>}

FactRows == {FactRow(pg, v5) : pg \in PgUids, v5 \in Rates}

RECURSIVE SeqsUpTo(_, _)
SeqsUpTo(S, n) ==
    IF n = 0 THEN {<<>>}
    ELSE LET shorter == SeqsUpTo(S, n - 1)
         IN  shorter \cup {Append(q, x) : q \in {t \in shorter : Len(t) = n - 1}, x \in S}

FactFrame(rows) == [columns |-> FACT_COLUMNS, dtypes |-> FactDtypes, rows |-> rows]

-----------------------------------------------------------------------------
(* run_etl3_pipeline: the chunk loop, run after run against the same target *)

\* total_rows // chunk_size: the chunks that are full
FullChunks(total_rows, size) == total_rows \div size

\* (total_rows + chunk_size - 1) // chunk_size
TotalChunks(total_rows, size) == (total_rows + size - 1) \div size

\* the frame scan_parquet(fact_path) gives: a file named in no_key lacks the
\* column pos_set_id
FactFile(no_key) ==
    IF "fact_rate" \in no_key
    THEN SelectSeq(FACT_COLUMNS, LAMBDA c : c # "pos_set_id")
    ELSE FACT_COLUMNS

\* fact_lazy.slice(chunk_start, chunk_size).collect()
Chunk(idx) ==
    Select(FactFrame(SliceRows(fact_rate, idx * chunk_size, chunk_size)),
           FactFile(faults.no_key))

\* a run in which nothing raises
NoFaults == [read |-> {}, s3 |-> {}, no_key |-> {}]

\* the S3 call that fails while chunk idx writes its k-th partition
IoOf(idx, k) ==
    IF \E f \in faults.s3 : f[1] = idx /\ f[2] = k
    THEN (CHOOSE f \in faults.s3 : f[1] = idx /\ f[2] = k)[3]
    ELSE "ok"

\* the cross-reference files a run finds: none, or both
XrefChoices == {{}, {"pg_member_npi", "pg_member_tin"}}

\* the variables of ScalableETL1.merge_temp_files before any call
Etl1AtRest ==
    /\ temp_files = <<>>
    /\ temp_dir = [chunks |-> {}, batches |-> {}]
    /\ batch_num = 0
    /\ intermediate_files = <<>>
    /\ output_files = <<>>
    /\ merge_reads = <<>>

\* a unified run is going on, itself at work or waiting for a child process
InUnifiedRun == "config" \in DOMAIN unified

\* the variables of the other programs before they are run
RunAtRest ==
    /\ rates_file = None
    /\ providers_file = None
    /\ staging = <<>>
    /\ outputs = <<>>
    /\ etl1_run = <<>>
    /\ unified = <<>>
    /\ writers = <<>>

InitEtl3 ==
    /\ fact_rate \in SeqsUpTo(FactRows, MaxRows)
    /\ xrefs \in XrefChoices
    /\ chunk_size \in 1..MaxRows
    /\ chunk_idx = 0
    /\ run = 0
    /\ store = <<>>
    /\ processed_rows = 0
    /\ total_partitions = 0
    /\ first_run_store = <<>>
    /\ faults = NoFaults
    /\ chunk_log = <<>>
    /\ summary = <<>>
    /\ athena = <<>>
    /\ Etl1AtRest
    /\ RunAtRest
    /\ pc = "idle"
    /\ arg = <<>>
    /\ ret = <<>>
    /\ removal = <<>>
    /\ hashseed = 0

\* the failing S3 call of each partition write of chunk idx, which has at most n
\* partition combinations
ChunkIo(idx, n) == [k \in 1..n |-> IoOf(idx, k)]

\* processed_rows += chunk_data.height, counted whether or not the block raised
CountedRowsAlways(chunk_data, raised) == Len(chunk_data.rows)

\* processed_rows += chunk_data.height is the last statement of the try block:
\* a chunk whose block raised adds nothing
CountedRows(chunk_data, raised) == IF raised THEN 0 ELSE Len(chunk_data.rows)

\* a run starts: the tables are loaded, the counters start at 0
StartRun ==
    /\ pc = "idle"
    /\ run < MaxRuns
    \* run_etl3.py, the child process of a unified run, makes one call
    /\ InUnifiedRun => run = 0
    /\ pc' = "loop"
    /\ chunk_idx' = 0
    /\ processed_rows' = 0
    /\ total_partitions' = 0
    /\ chunk_log' = <<>>
    /\ summary' = <<>>
    /\ UNCHANGED <<athena, fact_rate, xrefs, chunk_size, run, store, first_run_store,
                   faults, arg, ret, etl1vars, runvars, removal, hashseed>>

\* one iteration of the chunk loop: slice, enrich, write the partitions; an
\* exception of the try block is logged and the loop goes on with the next chunk
\* the body of the try block up to the enrichment: the chunk is read and
\* enriched, or one of the two raises
EnrichedOf(idx) ==
    IF idx \in faults.read THEN Raised("OSError")
    ELSE _enrich_fact_table(Chunk(idx), LoadDimensions(faults.no_key), Xrefs(xrefs))

\* the rest of the try block: the partitions of the enriched chunk are written
PartitionsOf(st, enriched_chunk, idx) ==
    IF IsError(enriched_chunk)
    THEN [store |-> st, created |-> <<>>, raised |-> TRUE]
    ELSE _create_partitions_for_chunk(
             st, enriched_chunk, PARTITION_COLUMNS, S3_PREFIX, TRUE,
             ChunkIo(idx, Len(enriched_chunk.rows)))

ProcessChunk ==
    /\ pc = "loop"
    /\ chunk_idx < TotalChunks(Len(fact_rate), chunk_size)
    /\ \E chunk_data \in {Chunk(chunk_idx)},
          done \in {PartitionsOf(store, EnrichedOf(chunk_idx), chunk_idx)} :
           /\ store' = done.store
           /\ total_partitions' =
                  IF done.raised THEN total_partitions
                  ELSE total_partitions + Len(done.created)
           /\ processed_rows' = processed_rows + CountedRows(chunk_data, done.raised)
           /\ chunk_log' = Append(chunk_log,
                                  [chunk_start |-> chunk_idx * chunk_size,
                                   height      |-> Len(chunk_data.rows),
                                   error       |-> done.raised,
                                   created     |-> done.created])
    /\ chunk_idx' = chunk_idx + 1
    /\ UNCHANGED <<athena, fact_rate, xrefs, chunk_size, run, first_run_store, faults,
                   summary, pc, arg, ret, etl1vars, runvars, removal, hashseed>>

\* _wait_for_athena_query(query_execution_id, max_wait_time=300), and the
\* time.sleep(5) between two polls, in seconds
MAX_WAIT_TIME == 300
POLL_SLEEP == 5

\* most sleeps between polls that the wait of a pipeline run is followed for
MaxPolls == 1

\* what get_query_execution can answer: the state of the query, or the call
\* raises ClientError, as start_query_execution can
ATHENA_STATES == {"QUEUED", "RUNNING", "SUCCEEDED", "FAILED", "CANCELLED"}
POLL_RESULTS == ATHENA_STATES \cup {"ClientError"}

\* the summary run_etl3_pipeline returns
SummaryOf(rows, chunks, partitions) ==
    [total_input_rows         |-> rows,
     total_chunks_processed   |-> chunks,
     total_partitions_created |-> partitions,
     status                   |-> "SUCCESS"]

\* the call of run_etl3_pipeline is over: result is the summary it returned or
\* the exception it raised
RunEnds(result) ==
    /\ pc' = "idle"
    /\ run' = run + 1
    /\ first_run_store' = IF run = 0 THEN store ELSE first_run_store
    /\ summary' = result
    /\ athena' = <<>>
    /\ UNCHANGED <<fact_rate, xrefs, chunk_size, chunk_idx, store, processed_rows,
                   total_partitions, faults, chunk_log, arg, ret, etl1vars, runvars,
                   removal, hashseed>>

\* one poll of _wait_for_athena_query, made after sleeps sleeps of a wait
\* followed for cap of them: a query that succeeded ends the wait and the
\* run returns its summary; one that failed or was cancelled raises
\* Exception, a failing call ClientError; else the call sleeps
Polled(status, sleeps, cap) ==
    IF status = "SUCCEEDED"
    THEN RunEnds(SummaryOf(processed_rows, TotalChunks(Len(fact_rate), chunk_size),
                           total_partitions))
    ELSE IF status \in {"FAILED", "CANCELLED"}
    THEN RunEnds(Raised("Exception"))
    ELSE IF status = "ClientError"
    THEN RunEnds(Raised("ClientError"))
    ELSE /\ sleeps < cap
         /\ pc' = "athena_sleep"
         /\ athena' = [sleeps |-> sleeps, cap |-> cap]
         /\ UNCHANGED <<fact_rate, xrefs, chunk_size, chunk_idx, run, store,
                        processed_rows, total_partitions, first_run_store,
                        faults, chunk_log, summary, arg, ret, etl1vars,
                        runvars, removal, hashseed>>

\* the loop is over: create_athena_table starts the query (a
\* start_query_execution that raises ends the run as a poll that raises does)
\* and _wait_for_athena_query polls it for the first time
EndLoop ==
    /\ pc = "loop"
    /\ chunk_idx = TotalChunks(Len(fact_rate), chunk_size)
    /\ \E status \in POLL_RESULTS : Polled(status, 0, MaxPolls)

\* time.sleep(5) is over and the loop condition reads the clock: after
\* max_wait_time seconds the wait raises Exception ("timed out"), else the
\* query is polled again. The sleeps alone take that long after
\* max_wait_time / 5 of them; the calls take time too, so the wait can be
\* over earlier
AthenaSleep ==
    /\ pc = "athena_sleep"
    /\ \E timed_out \in
           IF (athena.sleeps + 1) * POLL_SLEEP >= MAX_WAIT_TIME THEN {TRUE}
           ELSE BOOLEAN :
          IF timed_out
          THEN RunEnds(Raised("Exception"))
          ELSE \E status \in POLL_RESULTS :
                  Polled(status, athena.sleeps + 1, athena.cap)

Next == StartRun \/ ProcessChunk \/ EndLoop \/ AthenaSleep

Spec == InitEtl3 /\ [][Next]_vars

\* create_athena_table alone, after a run without rows, followed to its end
\* however long the query stays QUEUED or RUNNING
InitAthena ==
    /\ InitEtl3
    /\ fact_rate = <<>>
    /\ xrefs = {}
    /\ chunk_size = 1

AthenaCall ==
    /\ pc = "idle"
    /\ run = 0
    /\ \E status \in POLL_RESULTS :
          Polled(status, 0, MAX_WAIT_TIME \div POLL_SLEEP)

SpecAthena == InitAthena /\ [][AthenaCall \/ AthenaSleep]_vars

-----------------------------------------------------------------------------
(* S3PartitionedETL.create_s3_partitions, which no module of the repository   *)
(* calls: a caller of the class hands it an enriched frame                    *)

\* create_s3_partitions(enriched_df, partition_cols, prefix), from combination
\* i on: upload_partition_to_s3 puts the rows of every combination at its
\* path, where they replace the file; nothing is looked up, read or merged
RECURSIVE create_s3_partitions(_, _, _, _, _)
create_s3_partitions(st, enriched_df, combos, prefix, i) ==
    IF i > Len(combos) THEN [store |-> st, created |-> <<>>]
    ELSE LET s3_path == create_s3_path(combos[i], prefix)
             partition_data == PartitionData(enriched_df, combos[i])
             next == create_s3_partitions((s3_path :> partition_data) @@ st,
                                          enriched_df, combos, prefix, i + 1)
         IN  [next EXCEPT !.created = <<s3_path>> \o @]

InitPartitions ==
    /\ InitEtl3
    /\ fact_rate # <<>>
    /\ chunk_size = 1

\* one call with a slice of the fact table, enriched
CreatePartitionsCall ==
    /\ pc = "idle"
    /\ run < MaxRuns
    /\ \E idx \in 0..(Len(fact_rate) - 1) :
          \E enriched_df \in {EnrichedOf(idx)} :
              \E done \in {create_s3_partitions(
                               store, enriched_df,
                               PartitionCombinations(enriched_df, PARTITION_COLUMNS),
                               S3_PREFIX, 1)} :
                  /\ store' = done.store
                  /\ ret' = done.created
    /\ run' = run + 1
    /\ UNCHANGED <<athena, fact_rate, xrefs, chunk_size, chunk_idx, processed_rows,
                   total_partitions, first_run_store, faults, chunk_log, summary,
                   pc, arg, etl1vars, runvars, removal, hashseed>>

SpecPartitions == InitPartitions /\ [][CreatePartitionsCall]_vars

-----------------------------------------------------------------------------
(* merge_partition_data called on its own: an existing partition file and the *)
(* rows of a chunk for it.  The frames differ in their columns (a file written *)
(* before a column was added, a file without fact_uid) and in the dtype the    *)
(* parquet reader gives the column val.                                        *)

\* longest frame handed to merge_partition_data
MaxFrameRows == 2

MERGE_SHAPES ==
    [base  |-> <<"fact_uid", "val">>,
     wide  |-> <<"fact_uid", "val", "extra">>,
     nouid |-> <<"val">>]

MergeRows ==
    [fact_uid : {<<"u">>, <<"w">>}, val : {<<"1">>, <<"2">>}, extra : {<<"x">>}]

MergeFrame(shape, dtype, rows) ==
    Select([columns |-> MERGE_SHAPES.wide,
            dtypes  |-> [fact_uid |-> "str", val |-> dtype, extra |-> "str"],
            rows    |-> rows],
           MERGE_SHAPES[shape])

MergeFrames(dtypes) ==
    {MergeFrame(shape, dtype, rows) :
        shape \in DOMAIN MERGE_SHAPES, dtype \in dtypes,
        rows \in SeqsUpTo(MergeRows, MaxFrameRows) \ {<<>>}}

\* the variables of run_etl3_pipeline before any run
Etl3AtRest ==
    /\ fact_rate = <<>>
    /\ xrefs = {}
    /\ chunk_size = 1
    /\ chunk_idx = 0
    /\ run = 0
    /\ store = <<>>
    /\ processed_rows = 0
    /\ total_partitions = 0
    /\ first_run_store = <<>>
    /\ faults = NoFaults
    /\ chunk_log = <<>>
    /\ summary = <<>>
    /\ athena = <<>>

\* the variables of the pipelines, at rest while one function is studied
AtRest == Etl3AtRest /\ Etl1AtRest /\ RunAtRest

InitMerge ==
    /\ AtRest
    /\ pc = "call"
    /\ arg \in [existing_data : MergeFrames({"str"}), new_data : MergeFrames({"str", "i64"})]
    /\ ret = <<>>
    /\ removal = <<>>
    /\ hashseed \in 0..MaxHashSeed

MergeCall ==
    /\ pc = "call"
    /\ "existing_data" \in DOMAIN arg
    /\ ret' = merge_partition_data(arg.existing_data, arg.new_data)
    /\ pc' = "done"
    /\ UNCHANGED <<etl3vars, runvars, etl1vars, arg, removal, hashseed>>

SpecMerge == InitMerge /\ [][MergeCall]_vars

\* the fact_uids of a frame
Uids(df) == {df.rows[i].fact_uid : i \in 1..Len(df.rows)}

\* merge_partition_data has returned for two frames that carry fact_uid
MergedWithUid ==
    /\ pc = "done"
    /\ "existing_data" \in DOMAIN arg
    /\ HasCol(arg.existing_data, "fact_uid")
    /\ HasCol(arg.new_data, "fact_uid")

\* row r of the result agrees with row x on every column of the result except
\* the temporary row_id
AgreesOnResult(r, x) ==
    \A c \in Range(ret.columns) \ {"row_id"} : r[c] = x[c]

\* the last row of df with fact_uid u
LastWithUid(df, u) ==
    df.rows[CHOOSE i \in 1..Len(df.rows) :
                /\ df.rows[i].fact_uid = u
                /\ \A k \in (i + 1)..Len(df.rows) : df.rows[k].fact_uid # u]

\* C3: merge_partition_data(E, N) returns exactly one row per distinct fact_uid
\* of E and N together, on every path by which it returns
C3_OneRowPerFactUid ==
    MergedWithUid =>
        /\ HasCol(ret, "fact_uid")
        /\ Uids(ret) = Uids(arg.existing_data) \cup Uids(arg.new_data)
        /\ Len(ret.rows) = Cardinality(Uids(ret))

\* C4: for a fact_uid of both E and N the result keeps the row of N; a fact_uid
\* of E alone keeps its row of E
C4_LastWriteWins ==
    MergedWithUid =>
        /\ HasCol(ret, "fact_uid")
        /\ \A u \in Uids(arg.new_data) :
              \A i \in 1..Len(ret.rows) :
                  ret.rows[i].fact_uid = u
                      => AgreesOnResult(ret.rows[i], LastWithUid(arg.new_data, u))
        /\ \A u \in Uids(arg.existing_data) \ Uids(arg.new_data) :
              \E i \in 1..Len(ret.rows) :
                  /\ ret.rows[i].fact_uid = u
                  /\ \E k \in 1..Len(arg.existing_data.rows) :
                        /\ arg.existing_data.rows[k].fact_uid = u
                        /\ AgreesOnResult(ret.rows[i], arg.existing_data.rows[k])

-----------------------------------------------------------------------------
(* extract_partition_keys called on its own: an enriched frame of one row in  *)
(* which every source column of a partition key is absent, null or a value,   *)
(* and year_month is a string column or (a corrupt input) an integer column.  *)

ABSENT == <<"absent">>

KEY_SOURCES ==
    <<"year_month", "payer_slug", "state_geo", "state", "billing_class",
      "proc_set", "proc_class", "primary_taxonomy_code", "stat_area_name">>

CellValues(c) ==
    IF c = "year_month"
    THEN {ABSENT, None, <<"2","0","2","5","-","0","8">>, <<"2","0","2","5">>,
          <<"2","0","2","5","/","0","8">>, <<"a","b","c","d","-","e","f">>}
    ELSE {ABSENT, None, <<"v">>}

\* the frame whose column c holds cells[c], without the absent columns
EnrichedFrame(cells, ym_dtype) ==
    LET cols == SelectSeq(KEY_SOURCES, LAMBDA c : cells[c] # ABSENT)
    IN  [columns |-> cols,
         dtypes  |-> [c \in Range(cols) |-> IF c = "year_month" THEN ym_dtype ELSE "str"],
         rows    |-> << [c \in Range(cols) |-> cells[c]] >>]

InitKeys ==
    /\ AtRest
    /\ pc = "call"
    /\ \E cells \in [Range(KEY_SOURCES) -> {ABSENT, None, <<"v">>}],
          ym \in CellValues("year_month"), ym_dtype \in {"str", "i64"} :
          arg = [enriched_df |->
                    EnrichedFrame([cells EXCEPT
                                      !["year_month"] = ym,
                                      !["state"] = IF @ = <<"v">> THEN <<"G","A">> ELSE @],
                                  ym_dtype)]
    /\ ret = <<>>
    /\ removal = <<>>
    /\ hashseed = 0

KeysCall ==
    /\ pc = "call"
    /\ "enriched_df" \in DOMAIN arg
    /\ ret' = extract_partition_keys(arg.enriched_df)
    /\ pc' = "done"
    /\ UNCHANGED <<etl3vars, runvars, etl1vars, arg, removal, hashseed>>

SpecKeys == InitKeys /\ [][KeysCall]_vars

\* extract_partition_keys has returned
KeysReturned == pc = "done" /\ "enriched_df" \in DOMAIN arg

\* C6: extract_partition_keys returns a frame in which every partition column
\* exists and is non-null in every row, whether a source column is absent, a
\* source value is null, or the exception fallback ran
C6_EveryPartitionKeyNonNull ==
    KeysReturned =>
        /\ Len(ret.rows) = Len(arg.enriched_df.rows)
        /\ \A c \in Range(PARTITION_COLUMNS) :
              /\ HasCol(ret, c)
              /\ \A i \in 1..Len(ret.rows) : ret.rows[i][c] # None

\* C6 witness: a frame with a null source value, an absent source column and a
\* null year_month has been resolved to the sentinel
C6_Witness ==
    /\ KeysReturned
    /\ ~ ExtractRaises(arg.enriched_df)
    /\ HasCol(arg.enriched_df, "payer_slug")
    /\ arg.enriched_df.rows[1].payer_slug = None
    /\ ~ HasCol(arg.enriched_df, "stat_area_name")
    /\ HasCol(arg.enriched_df, "year_month")
    /\ arg.enriched_df.rows[1].year_month = None
    /\ ret.rows[1].payer_slug = NULL_SENTINEL
    /\ ret.rows[1].stat_area_name = NULL_SENTINEL
    /\ ret.rows[1].year = NULL_SENTINEL

-----------------------------------------------------------------------------
(* create_s3_path called on two partition keys of the configured key space    *)

PathValues(c) ==
    CASE c = "year"  -> {<<"2","0","2","4">>, <<"2","0","2","5">>}
      [] c = "month" -> {<<"0","8">>, <<"0","9">>, <<"8">>, <<"-">>, PyInt(8), None}
      [] OTHER       -> {<<"a">>, <<"b">>, <<"a"," ","b">>, <<"a","_","b">>, NULL_SENTINEL}

\* the keys the pairs start from
BaseKeys ==
    [Range(PARTITION_COLUMNS) \ {"year", "month"} -> {<<"a">>, <<"b">>}]

BaseKey(k) == k @@ [year |-> <<"2","0","2","5">>, month |-> <<"0","8">>]

InitPath ==
    /\ AtRest
    /\ pc = "call"
    /\ \E k \in BaseKeys, c \in Range(PARTITION_COLUMNS) :
          \E v \in PathValues(c) :
              arg = [key1 |-> BaseKey(k), key2 |-> [BaseKey(k) EXCEPT ![c] = v]]
    /\ ret = <<>>
    /\ removal = <<>>
    /\ hashseed = 0

PathCall ==
    /\ pc = "call"
    /\ "key1" \in DOMAIN arg
    /\ ret' = [path1 |-> create_s3_path(arg.key1, S3_PREFIX),
               path2 |-> create_s3_path(arg.key2, S3_PREFIX)]
    /\ pc' = "done"
    /\ UNCHANGED <<etl3vars, runvars, etl1vars, arg, removal, hashseed>>

SpecPath == InitPath /\ [][PathCall]_vars

\* create_s3_path has returned a path for both keys
PathsReturned ==
    /\ pc = "done"
    /\ "key1" \in DOMAIN arg
    /\ arg.key1.month # None
    /\ arg.key2.month # None

\* C7: create_s3_path maps equal keys to one path and different keys of the
\* configured partition columns to different paths
C7_PathInjective ==
    PathsReturned =>
        ((ret.path1 = ret.path2) <=> (arg.key1 = arg.key2))

-----------------------------------------------------------------------------
(* Properties of the write path of run_etl3_pipeline *)

\* the rows of the partition file at path p that carry fact_uid u
RowsOfUid(p, u) == {i \in 1..Len(store[p].rows) : store[p].rows[i].fact_uid = u}

\* C1: after any sequence of write_partition_idempotent calls, no partition file
\* holds two rows with the same fact_uid
C1_NoTwoRowsShareFactUid ==
    \A p \in DOMAIN store :
        \A i, j \in 1..Len(store[p].rows) :
            store[p].rows[i].fact_uid = store[p].rows[j].fact_uid => i = j

\* a run has just ended
RunEnded == pc = "idle" /\ run >= 1

\* the last call returned its summary: the Athena table was created
RunReturned == RunEnded /\ ~IsError(summary)

\* C2: starting from an empty target, running the same chunk through the write
\* path twice leaves every partition file with the rows it had after one run
C2_SecondRunChangesNothing ==
    (RunEnded /\ run = 2 /\ TotalChunks(Len(fact_rate), chunk_size) = 1)
        => /\ DOMAIN store = DOMAIN first_run_store
           /\ \A p \in DOMAIN store :
                 SameRows(store[p].rows, first_run_store[p].rows)

\* the business-key fields of a fact row other than the rate
BUSINESS_KEY ==
    {"state", "year_month", "payer_slug", "billing_class", "code_type", "code",
     "pg_uid", "pos_set_id", "negotiated_type", "negotiation_arrangement",
     "expiration_date", "provider_group_id_raw"}

SameBusinessKey(a, b) == \A f \in BUSINESS_KEY : a[f] = b[f]

\* the chunk a source row (position i, from 1) belongs to
ChunkOf(i) == (i - 1) \div chunk_size

\* source rows i < j of different chunks that differ in the rate only
RatePairs ==
    {ij \in (1..Len(fact_rate)) \X (1..Len(fact_rate)) :
        /\ ij[1] < ij[2]
        /\ ChunkOf(ij[1]) # ChunkOf(ij[2])
        /\ SameBusinessKey(fact_rate[ij[1]], fact_rate[ij[2]])
        /\ fact_rate[ij[1]].negotiated_rate # fact_rate[ij[2]].negotiated_rate}

\* the partition files that hold a row of one of the fact_uids in U
FilesOf(U) == {p \in DOMAIN store : \E u \in U : RowsOfUid(p, u) # {}}

\* the rate of the last source row that has one of the fact_uids in U
LastRateOf(U) ==
    LET last == CHOOSE i \in 1..Len(fact_rate) :
                    /\ fact_rate[i].fact_uid \in U
                    /\ \A k \in (i + 1)..Len(fact_rate) : fact_rate[k].fact_uid \notin U
    IN  fact_rate[last].negotiated_rate

\* the partition file p holds one row of the fact_uids in U, with the last rate
OneSurvivor(p, U) ==
    LET held == UNION {RowsOfUid(p, u) : u \in U}
    IN  /\ Cardinality(held) = 1
        /\ \A i \in held : store[p].rows[i].negotiated_rate = LastRateOf(U)

\* C5 as stated: of two rows in different chunks that differ in the rate only,
\* exactly one survives in the partition, with the rate of the chunk merged last
C5_Original ==
    RunEnded =>
        \A ij \in RatePairs :
            LET U == {fact_rate[ij[1]].fact_uid, fact_rate[ij[2]].fact_uid}
            IN  /\ FilesOf(U) # {}
                /\ \A p \in FilesOf(U) : OneSurvivor(p, U)

\* C5 amended: the rate is part of the identity.  Rates that agree to four
\* decimals give one fact_uid and one survivor, with the rate merged last; rates
\* that differ at four decimals give two fact_uids and both rows survive, one
\* row per fact_uid
C5_RateIsPartOfIdentity ==
    RunEnded =>
        \A ij \in RatePairs :
            LET a == fact_rate[ij[1]]
                b == fact_rate[ij[2]]
            IN  /\ (a.fact_uid = b.fact_uid)
                      <=> (RateStr(a.negotiated_rate) = RateStr(b.negotiated_rate))
                /\ FilesOf({a.fact_uid, b.fact_uid}) # {}
                /\ \A p \in FilesOf({a.fact_uid, b.fact_uid}) :
                      /\ OneSurvivor(p, {a.fact_uid})
                      /\ OneSurvivor(p, {b.fact_uid})

\* C5 witness: a run ended over a source with a pair of one fact_uid and a pair
\* of two fact_uids, each pair in different chunks
C5_Witness ==
    /\ RunEnded
    /\ \E ij \in RatePairs : fact_rate[ij[1]].fact_uid = fact_rate[ij[2]].fact_uid
    /\ \E ij \in RatePairs :
          /\ fact_rate[ij[1]].fact_uid # fact_rate[ij[2]].fact_uid
          /\ \E p \in DOMAIN store :
                /\ RowsOfUid(p, fact_rate[ij[1]].fact_uid) # {}
                /\ RowsOfUid(p, fact_rate[ij[2]].fact_uid) # {}

-----------------------------------------------------------------------------
(* ScalableETL1.process_fact_table over the chunks of a rates table.  A rates  *)
(* row carries the rate as decimal text; the cast to Float64 parses it.        *)

\* longest rates table
MaxRateRows == 2

DigitVal(c) == CHOOSE d \in 0..9 : Digit(d) = c

RECURSIVE ToNat(_)
ToNat(t) == IF t = <<>> THEN 0 ELSE ToNat(SubSeq(t, 1, Len(t) - 1)) * 10 + DigitVal(t[Len(t)])

\* the value of a decimal text of at most five fraction digits, in units of 1e-5
ParseDecimal(t) ==
    LET dots == {i \in 1..Len(t) : t[i] = "."}
        dot  == IF dots = {} THEN Len(t) + 1 ELSE CHOOSE i \in dots : TRUE
        frac == SubSeq(t, dot + 1, Len(t))
        pad  == [i \in 1..(5 - Len(frac)) |-> "0"]
    IN  ToNat(SubSeq(t, 1, dot - 1)) * 100000 + ToNat(frac \o pad)

\* pl.col("negotiated_rate").cast(pl.Float64)
CastFloat64(x) == IF x = None THEN None ELSE F64(ParseDecimal(x))

\* the positions of the rows that no earlier row equals
FirstOccurrences(rows) ==
    {i \in 1..Len(rows) : \A j \in 1..(i - 1) : rows[j] # rows[i]}

\* the rows at the positions keep, in their order
RowsAt(rows, keep) ==
    AsList([k \in 1..Cardinality(keep) |->
               rows[CHOOSE i \in keep : Cardinality({j \in keep : j <= i}) = k]])

\* the first occurrence of every distinct row: df.unique()
Distinct(rows) == RowsAt(rows, FirstOccurrences(rows))

\* config.state
CONFIG_STATE == <<"G","A">>

\* the fact row of one rates row, before the fact_uid is added
FactFields(r) ==
    [state                   |-> CONFIG_STATE,
     year_month              |-> r.year_month,
     payer_slug              |-> r.payer_slug,
     billing_class           |-> r.billing_class,
     code_type               |-> r.billing_code_type,
     code                    |-> r.billing_code,
     pg_uid                  |-> r.pg_uid,
     pos_set_id              |-> r.pos_set_id,
     negotiated_type         |-> r.negotiated_type,
     negotiation_arrangement |-> r.negotiation_arrangement,
     negotiated_rate         |-> CastFloat64(r.negotiated_rate),
     expiration_date         |-> r.expiration_date,
     provider_group_id_raw   |-> r.provider_reference_id,
     reporting_entity_name   |-> r.reporting_entity_name]

\* the rows of process_fact_table(rates_chunk)
process_fact_table(rates_chunk) ==
    Distinct([i \in 1..Len(rates_chunk) |->
                 LET f == FactFields(rates_chunk[i])
                 IN  [fact_uid |-> fact_uid_from_struct(f)] @@ f])

RateTexts ==
    {None, <<"1",".","5">>, <<"1",".","5","0">>, <<"1",".","5","0","0","0","4">>,
     <<"2",".","5">>}

RatesRows ==
    {[year_month              |-> <<"2","0","2","5","-","0","8">>,
      payer_slug              |-> <<"p">>,
      billing_class           |-> <<"i">>,
      billing_code_type       |-> <<"C","P","T">>,
      billing_code            |-> <<"c">>,
      pg_uid                  |-> <<"g","1">>,
      pos_set_id              |-> <<"s">>,
      negotiated_type         |-> <<"n">>,
      negotiation_arrangement |-> <<"f">>,
      negotiated_rate         |-> rate,
      expiration_date         |-> exp,
      provider_reference_id   |-> <<"7">>,
      reporting_entity_name   |-> ent] :
        rate \in RateTexts, exp \in {None, <<>>}, ent \in {<<"e">>, <<"f">>}}

InitIdentity ==
    /\ AtRest
    /\ pc = "rates"
    /\ \E rows \in SeqsUpTo(RatesRows, MaxRateRows), size \in 1..MaxRateRows :
          arg = [rates |-> rows, chunk_size |-> size]
    /\ ret = <<>>
    /\ removal = <<>>
    /\ hashseed = 0

\* one iteration of the rates chunk loop: slice, process_fact_table, stage
ProcessFactChunk ==
    /\ pc = "rates"
    /\ Len(ret) < TotalChunks(Len(arg.rates), arg.chunk_size)
    /\ LET rates_chunk == SliceRows(arg.rates, Len(ret) * arg.chunk_size, arg.chunk_size)
       IN  ret' = Append(ret, process_fact_table(rates_chunk))
    /\ UNCHANGED <<etl3vars, runvars, etl1vars, pc, arg, removal, hashseed>>

SpecIdentity == InitIdentity /\ [][ProcessFactChunk]_vars

\* the rates chunk loop is under way
IdentityRun == pc = "rates" /\ "rates" \in DOMAIN arg

\* two values of an identity field that are the same after null -> ""
SameField(x, y) == (IF x = None THEN <<>> ELSE x) = (IF y = None THEN <<>> ELSE y)

\* two rate texts that denote the same number, or are both null
SameNumber(x, y) ==
    IF x = None \/ y = None THEN x = y ELSE ParseDecimal(x) = ParseDecimal(y)

\* two rates rows with equal identity fields
SameIdentity(x, y) ==
    /\ \A f \in {"year_month", "payer_slug", "billing_class", "billing_code_type",
                 "billing_code", "pg_uid", "pos_set_id", "negotiated_type",
                 "negotiation_arrangement", "expiration_date",
                 "provider_reference_id"} : SameField(x[f], y[f])
    /\ SameNumber(x.negotiated_rate, y.negotiated_rate)

\* the staged fact rows that were made from the rates row at position p
StagedOf(p) ==
    LET x == arg.rates[p]
        staged == ret[((p - 1) \div arg.chunk_size) + 1]
    IN  {staged[i] : i \in {i \in 1..Len(staged) :
            /\ staged[i].reporting_entity_name = x.reporting_entity_name
            /\ staged[i].expiration_date = x.expiration_date
            /\ (x.negotiated_rate = None <=> staged[i].negotiated_rate = None)
            /\ (x.negotiated_rate # None
                  => V5(staged[i].negotiated_rate) = ParseDecimal(x.negotiated_rate))}}

\* the positions of the rates table whose chunk has been processed
Processed == {p \in 1..Len(arg.rates) : (p - 1) \div arg.chunk_size < Len(ret)}

\* C8: rates rows with equal identity fields (null the same as "", 1.5 the same
\* as 1.50) get the same fact_uid, in whichever chunk and position they are
C8_IdentityDeterminesUid ==
    IdentityRun =>
        \A p, q \in Processed :
            /\ StagedOf(p) # {}
            /\ SameIdentity(arg.rates[p], arg.rates[q])
                  => \A a \in StagedOf(p), b \in StagedOf(q) : a.fact_uid = b.fact_uid

\* C8 witness: rows of two chunks whose rates are 1.5 and 1.50 and whose
\* expiration dates are null and "" have been staged with one fact_uid
C8_Witness ==
    /\ IdentityRun
    /\ arg.chunk_size = 1
    /\ Len(arg.rates) = 2
    /\ Len(ret) = 2
    /\ arg.rates[1].negotiated_rate = <<"1",".","5">>
    /\ arg.rates[2].negotiated_rate = <<"1",".","5","0">>
    /\ arg.rates[1].expiration_date = None
    /\ arg.rates[2].expiration_date = <<>>
    /\ ret[1][1].fact_uid = ret[2][1].fact_uid

-----------------------------------------------------------------------------
(* ScalableETL1.merge_temp_files: the staging files of one table are merged    *)
(* into the final file, at once or in waves of max_files_per_batch             *)

\* most staging files of one table: enough for more intermediate files than
\* one batch holds
MaxTempFiles == 101

\* max_files_per_batch
MAX_FILES_PER_BATCH == 10

\* the rows of staging files: a key column and a value column
TempRow(k, v) == [key |-> <<"k", Digit(k)>>, val |-> <<v>>]

\* SELECT DISTINCT * on every table: the fact files would be deduplicated too
SelectDistinct(table_name, files) == Distinct(Flatten(files))

\* COPY (SELECT [DISTINCT] * FROM read_parquet([files])): the fact table is
\* concatenated, a dimension table keeps one copy of every distinct row
DuckDBSelect(table_name, files) ==
    IF table_name = "fact_rate" THEN Flatten(files) ELSE Distinct(Flatten(files))

Min(a, b) == IF a < b THEN a ELSE b

InitMergeTemp ==
    /\ Etl3AtRest
    /\ RunAtRest
    /\ pc = "merge"
    /\ \E n \in 0..MaxTempFiles, period \in 1..3, values \in 1..2 :
          temp_files = [i \in 1..n |->
                           <<TempRow((i - 1) % period,
                                     IF (i - 1) % values = 0 THEN "a" ELSE "b")>>] \o <<>>
    /\ temp_dir = [chunks |-> 1..Len(temp_files), batches |-> {}]
    /\ batch_num = 0
    /\ intermediate_files = <<>>
    /\ output_files = <<>>
    /\ merge_reads = <<>>
    /\ arg \in [table_name : {"fact_rate", "dim_code"}]
    /\ ret = <<>>
    /\ removal = <<>>
    /\ hashseed = 0

\* no staging file: a warning, nothing is written
MergeNone ==
    /\ pc = "merge"
    /\ temp_files = <<>>
    /\ pc' = "merged"
    /\ UNCHANGED <<etl3vars, runvars, temp_files, temp_dir, batch_num, intermediate_files,
                   output_files, merge_reads, arg, ret, removal, hashseed>>

\* one staging file: os.rename(temp_files[0], output_path)
MergeSingle ==
    /\ pc = "merge"
    /\ Len(temp_files) = 1
    /\ output_files' = <<temp_files[1]>>
    /\ temp_dir' = [temp_dir EXCEPT !.chunks = {}]
    /\ pc' = "merged"
    /\ UNCHANGED <<etl3vars, runvars, temp_files, batch_num, intermediate_files, merge_reads,
                   arg, ret, removal, hashseed>>

\* up to max_files_per_batch staging files: one statement reads them all
MergeSmall ==
    /\ pc = "merge"
    /\ Len(temp_files) > 1
    /\ Len(temp_files) <= MAX_FILES_PER_BATCH
    /\ output_files' = <<DuckDBSelect(arg.table_name, temp_files)>>
    /\ merge_reads' = Append(merge_reads, Len(temp_files))
    /\ temp_dir' = [temp_dir EXCEPT !.chunks = {}]
    /\ pc' = "merged"
    /\ UNCHANGED <<etl3vars, runvars, temp_files, batch_num, intermediate_files, arg, ret, removal, hashseed>>

\* more staging files: one iteration of the batch loop writes one intermediate
\* file and removes the staging files it read
MergeBatch ==
    /\ pc = "merge"
    /\ Len(temp_files) > MAX_FILES_PER_BATCH
    /\ batch_num * MAX_FILES_PER_BATCH < Len(temp_files)
    /\ LET i == batch_num * MAX_FILES_PER_BATCH
           last == Min(i + MAX_FILES_PER_BATCH, Len(temp_files))
           batch_files == SubSeq(temp_files, i + 1, last)
       IN  /\ intermediate_files' =
                 Append(intermediate_files, DuckDBSelect(arg.table_name, batch_files))
           /\ merge_reads' = Append(merge_reads, Len(batch_files))
           /\ temp_dir' = [chunks  |-> temp_dir.chunks \ ((i + 1)..last),
                           batches |-> temp_dir.batches \cup {batch_num}]
    /\ batch_num' = batch_num + 1
    /\ UNCHANGED <<etl3vars, runvars, temp_files, output_files, pc, arg, ret, removal, hashseed>>

\* after the batch loop: all intermediate files are merged into the final file
MergeIntermediates ==
    /\ pc = "merge"
    /\ Len(temp_files) > MAX_FILES_PER_BATCH
    /\ batch_num * MAX_FILES_PER_BATCH >= Len(temp_files)
    /\ IF Len(intermediate_files) = 1
       THEN /\ output_files' = <<intermediate_files[1]>>
            /\ UNCHANGED merge_reads
       ELSE /\ output_files' = <<DuckDBSelect(arg.table_name, intermediate_files)>>
            /\ merge_reads' = Append(merge_reads, Len(intermediate_files))
    /\ temp_dir' = [chunks |-> {}, batches |-> {}]
    /\ pc' = "merged"
    /\ UNCHANGED <<etl3vars, runvars, temp_files, batch_num, intermediate_files, arg, ret, removal, hashseed>>

NextMergeTemp ==
    MergeNone \/ MergeSingle \/ MergeSmall \/ MergeBatch \/ MergeIntermediates

SpecMergeTemp == InitMergeTemp /\ [][NextMergeTemp]_vars

\* merge_temp_files has returned for more than max_files_per_batch files
MergedInWaves == pc = "merged" /\ Len(temp_files) > MAX_FILES_PER_BATCH

\* ceil(n / 10)
Waves(n) == (n + MAX_FILES_PER_BATCH - 1) \div MAX_FILES_PER_BATCH

\* ceil(n/10) waves of at most 10 files, one intermediate file each, then one
\* final wave over the intermediate files, and one final file
WaveStructure ==
    LET n == Len(temp_files)
    IN  /\ Len(intermediate_files) = Waves(n)
        /\ Len(merge_reads) = Waves(n) + 1
        /\ \A k \in 1..Waves(n) :
              merge_reads[k] = Min(MAX_FILES_PER_BATCH, n - MAX_FILES_PER_BATCH * (k - 1))
        /\ merge_reads[Waves(n) + 1] = Waves(n)
        /\ Len(output_files) = 1

\* the number of distinct rows in all the staging files
DistinctRowCount == Cardinality(Range(Flatten(temp_files)))

\* C10 as stated: the waves, and a final file with as many rows as the
\* deduplicated union of the rows of all staging files
C10_Original ==
    MergedInWaves =>
        /\ WaveStructure
        /\ Len(output_files[1]) = DistinctRowCount

\* C10 amended: the waves, and a final file with as many rows as the
\* deduplicated union for a dimension table, and as many rows as all staging
\* files together for fact_rate, whose files are concatenated
C10_WavesAndRowCount ==
    MergedInWaves =>
        /\ WaveStructure
        /\ Len(output_files[1]) =
              IF arg.table_name = "fact_rate" THEN Len(Flatten(temp_files))
              ELSE DistinctRowCount

\* C10 witness: 37 fact files were merged in waves of 10, 10, 10, 7 and a final
\* wave of 4, and the final file has 37 rows of which 3 are distinct
C10_Witness ==
    /\ pc = "merged"
    /\ Len(temp_files) = 37
    /\ arg.table_name = "fact_rate"
    /\ merge_reads = <<10, 10, 10, 7, 4>>
    /\ Len(output_files) = 1
    /\ Len(output_files[1]) = 37
    /\ DistinctRowCount = 3

-----------------------------------------------------------------------------
(* scripts/patch_merge_temp_files_batched.py: merge_temp_files_batched, run on *)
(* a directory of staging files with a batch size                              *)

\* most staging files handed to merge_temp_files_batched
MaxBatchedFiles == 4

\* temp_files[i:i + batch_size] for i in range(0, len(temp_files), batch_size)
RECURSIVE BatchesOf(_, _)
BatchesOf(files, batch_size) ==
    IF files = <<>> THEN <<>>
    ELSE LET n == Min(batch_size, Len(files))
         IN  <<SubSeq(files, 1, n)>> \o BatchesOf(SubSeq(files, n + 1, Len(files)), batch_size)

\* ROW_NUMBER() OVER (PARTITION BY keys ORDER BY keys) ... WHERE rn = 1: one row
\* of every key; the rows of a key are ties of the ORDER BY, so which of them
\* gets rn = 1 is not determined.  The set of the results the query can give.
RowNumberFirst(rows, keys) ==
    LET idx == 1..Len(rows)
        OnePerKey(S) ==
            \A i \in idx :
                Cardinality({j \in S : KeyOf(keys, rows[j]) = KeyOf(keys, rows[i])}) = 1
    IN  {[i \in 1..Len(q) |-> [rn |-> 1] @@ q[i]] \o <<>> :
            q \in {Pick(rows, S, 1) : S \in {S \in SUBSET idx : OnePerKey(S)}}}

\* pl.DataFrame(chunk) is handed the tuples of fetchall() without schema and
\* without orient, and the repository names no version of polars. A tuple
\* holds the strings of a staged row and the integer rn. polars before 1.0
\* infers the orientation from the types of the first tuple and takes tuples
\* of more than one type as rows ("row"); polars from 1.0 on takes every
\* tuple as a column ("col"), and a column of strings and an integer raises
\* TypeError
ORIENTATIONS == {"row", "col"}

\* pl.DataFrame(chunk) with the tuples taken as rows: the frame is built
\* without names, so polars calls the columns column_0, column_1, column_2,
\* in the order of the query: the columns of the staging files, then rn
Unnamed(rows) ==
    AsList([i \in 1..Len(rows) |->
               [column_0 |-> rows[i].key, column_1 |-> rows[i].val,
                column_2 |-> rows[i].rn]])

\* all_unique_data after the batch loop: the results of the batches, extended
\* one after the other.  The set of the lists the loop can build.
RECURSIVE AllUniqueData(_, _)
AllUniqueData(batches, keys) ==
    IF batches = <<>> THEN {<<>>}
    ELSE {first \o rest :
            first \in RowNumberFirst(Flatten(Head(batches)), keys),
            rest \in AllUniqueData(Tail(batches), keys)}

\* the end of a call that wrote the final file, or found nothing to write
Merged(written, rows) == [written |-> written, rows |-> rows, error |-> <<>>]

\* the ways a call of merge_temp_files_batched can end: the final file it
\* leaves at output_path, or the exception its handler raises again, with no
\* final file written
merge_temp_files_batched(files, table_name, keys, batch_size, orient) ==
    IF files = <<>> THEN {Merged(FALSE, <<>>)}
    ELSE IF Len(files) = 1 THEN {Merged(TRUE, files[1])}
    ELSE IF table_name = "fact_rate"
    THEN LET batches == BatchesOf(files, batch_size)
             batch_files == [b \in 1..Len(batches) |-> Flatten(batches[b])]
         IN  {Merged(TRUE, Flatten(batch_files))}
    ELSE {IF rows = <<>> THEN Merged(FALSE, <<>>)
          ELSE IF orient = "col"
          THEN [written |-> FALSE, rows |-> <<>>, error |-> Raised("TypeError")]
          ELSE Merged(TRUE, Unnamed(rows)) :
            rows \in AllUniqueData(BatchesOf(files, batch_size), keys)}

\* the staging files of the runs: rows of the keys k1 and k2
BatchedFilePool ==
    {<<TempRow(1, "a")>>, <<TempRow(1, "b")>>, <<TempRow(2, "a")>>,
     <<TempRow(1, "a"), TempRow(2, "b")>>}

InitBatched ==
    /\ Etl3AtRest
    /\ RunAtRest
    /\ pc = "batched"
    /\ \E files \in SeqsUpTo(BatchedFilePool, MaxBatchedFiles),
          table_name \in {"fact_rate", "dim_code"},
          batch_size \in 1..MaxBatchedFiles, orient \in ORIENTATIONS :
          /\ arg = [files |-> files, table_name |-> table_name, keys |-> <<"key">>,
                    batch_size |-> batch_size, orient |-> orient]
          /\ temp_files = files
    /\ temp_dir = [chunks |-> {}, batches |-> {}]
    /\ batch_num = 0
    /\ intermediate_files = <<>>
    /\ output_files = <<>>
    /\ merge_reads = <<>>
    /\ ret = <<>>
    /\ removal = <<>>
    /\ hashseed = 0

\* one call of merge_temp_files_batched: the staging files the directory
\* holds are merged into the final file and removed, so that a further call
\* finds none and writes nothing; a call that raises has written no final
\* file and removed no staging file, and a further call raises again
MergeBatchedCall ==
    /\ pc \in {"batched", "compacted", "batch_raised"}
    /\ "batch_size" \in DOMAIN arg
    /\ \E out \in merge_temp_files_batched(temp_files, arg.table_name, arg.keys,
                                          arg.batch_size, arg.orient) :
          /\ ret' = out
          /\ output_files' = IF out.written THEN <<out.rows>> ELSE output_files
          /\ temp_files' = IF IsError(out.error) THEN temp_files ELSE <<>>
          /\ pc' = IF IsError(out.error) THEN "batch_raised" ELSE "compacted"
    /\ UNCHANGED <<etl3vars, runvars, temp_dir, batch_num, intermediate_files,
                   merge_reads, arg, removal, hashseed>>

SpecBatched == InitBatched /\ [][MergeBatchedCall]_vars

\* C9: the rows merge_temp_files_batched leaves in the final file are the same
\* for every batch size, for the fact table and for a dimension table; a call
\* that raises would raise with every batch size
C9_BatchSizeIrrelevant ==
    /\ (pc = "compacted" /\ "batch_size" \in DOMAIN arg) =>
          \A batch_size \in 1..MaxBatchedFiles :
              \A other \in merge_temp_files_batched(arg.files, arg.table_name,
                                                    arg.keys, batch_size,
                                                    arg.orient) :
                  /\ ~IsError(other.error)
                  /\ other.written <=> output_files # <<>>
                  /\ other.written => SameRows(output_files[1], other.rows)
    /\ pc = "batch_raised" =>
          \A batch_size \in 1..MaxBatchedFiles :
              \A other \in merge_temp_files_batched(arg.files, arg.table_name,
                                                    arg.keys, batch_size,
                                                    arg.orient) :
                  IsError(other.error)

\* with the tuples taken as columns the batch size changes nothing: a
\* dimension table of two or more staging files is never written, whatever
\* the batch size, and the staging files stay
ColumnOrientNeverWritesDimension ==
    (pc \in {"compacted", "batch_raised"} /\ "batch_size" \in DOMAIN arg
        /\ arg.orient = "col" /\ arg.table_name # "fact_rate"
        /\ Len(arg.files) >= 2) =>
        /\ pc = "batch_raised"
        /\ ret.error = Raised("TypeError")
        /\ output_files = <<>>
        /\ temp_files = arg.files

\* the fact table is concatenated: its rows are the same for every batch
\* size, whatever the orientation
FactRowsSameForEveryBatchSize ==
    (pc = "compacted" /\ "batch_size" \in DOMAIN arg
        /\ arg.table_name = "fact_rate") =>
        \A batch_size \in 1..MaxBatchedFiles :
            \A other \in merge_temp_files_batched(arg.files, arg.table_name,
                                                  arg.keys, batch_size,
                                                  arg.orient) :
                /\ other.written <=> output_files # <<>>
                /\ other.written => SameRows(output_files[1], other.rows)

-----------------------------------------------------------------------------
(* run_etl3_pipeline in an environment where reads, S3 calls and joins may raise *)

\* partition writes of one chunk a failing S3 call is drawn for
MaxCombos == 2

S3_CALLS == {"head", "get", "put"}

\* two source rows of different provider groups
FaultRows == {FactRow(<<"g","1">>, 150000), FactRow(<<"g","2">>, 250000)}

\* at most one thing goes wrong in a run: the read of one chunk, one S3 call of
\* one partition write, or a file that lacks the column it is joined on
FaultChoices ==
    {NoFaults}
    \cup {[NoFaults EXCEPT !.read = {i}] : i \in 0..(MaxRows - 1)}
    \cup {[NoFaults EXCEPT !.s3 = {<<i, k, c>>}] :
             i \in 0..(MaxRows - 1), k \in 1..MaxCombos, c \in S3_CALLS}
    \cup {[NoFaults EXCEPT !.no_key = {n}] : n \in {"pos_set", "fact_rate"}}

InitFaults ==
    /\ fact_rate \in SeqsUpTo(FaultRows, MaxRows)
    /\ xrefs \in XrefChoices
    /\ chunk_size \in 1..MaxRows
    /\ chunk_idx = 0
    /\ run = 0
    /\ store = <<>>
    /\ processed_rows = 0
    /\ total_partitions = 0
    /\ first_run_store = <<>>
    /\ faults \in FaultChoices
    /\ chunk_log = <<>>
    /\ summary = <<>>
    /\ athena = <<>>
    /\ Etl1AtRest
    /\ RunAtRest
    /\ pc = "idle"
    /\ arg = <<>>
    /\ ret = <<>>
    /\ removal = <<>>
    /\ hashseed = 0

SpecFaults == InitFaults /\ [][Next]_vars

\* the rows of the chunks of log that completed without error, from entry i on
RECURSIVE RowsCompleted(_, _)
RowsCompleted(log, i) ==
    IF i > Len(log) THEN 0
    ELSE (IF log[i].error THEN 0 ELSE log[i].height) + RowsCompleted(log, i + 1)

\* the iteration that just ended raised
ChunkRaised ==
    /\ pc = "loop"
    /\ chunk_idx' = chunk_idx + 1
    /\ chunk_log'[Len(chunk_log')].error

\* C11: when the processing of a chunk raises outside the per-partition handler,
\* the iteration leaves every partition file as it was and adds nothing to the
\* row counter, the loop goes on, and the run ends having read every chunk in
\* order, with total_input_rows counting the rows of the completed chunks only
C11_ChunkLocalRecovery ==
    /\ [][ChunkRaised => /\ store' = store
                         /\ processed_rows' = processed_rows
                         /\ total_partitions' = total_partitions
                         /\ pc' = "loop"]_vars
    /\ [](RunEnded =>
            /\ Len(chunk_log) = TotalChunks(Len(fact_rate), chunk_size)
            /\ \A j \in 1..Len(chunk_log) :
                  chunk_log[j].chunk_start = (j - 1) * chunk_size
            /\ RunReturned =>
                  summary.total_input_rows = RowsCompleted(chunk_log, 1))

\* a run ended in which a chunk raised and a later chunk was written
C11_Witness ==
    /\ RunEnded
    /\ \E i, j \in 1..Len(chunk_log) :
          /\ i < j
          /\ chunk_log[i].error
          /\ chunk_log[i].height > 0
          /\ ~chunk_log[j].error
          /\ chunk_log[j].created # <<>>
    /\ RunReturned
    /\ summary.total_input_rows < Len(fact_rate)

\* the enriched frame of chunk idx of the current run
EnrichedChunk(idx) ==
    _enrich_fact_table(Chunk(idx), LoadDimensions(faults.no_key), Xrefs(xrefs))

\* the partition combinations of chunk idx and the path of the k-th of them
CombosOf(idx) == PartitionCombinations(EnrichedChunk(idx), PARTITION_COLUMNS)
PathOf(idx, k) == create_s3_path(CombosOf(idx)[k], S3_PREFIX)

\* the k-th partition write of chunk idx raises when it starts from the store st
WriteFails(st, idx, k) ==
    \/ IoOf(idx, k) \in {"head", "put"}
    \/ IoOf(idx, k) = "get" /\ PathOf(idx, k) \in DOMAIN st

\* every row of frame has a row with its fact_uid in the file at path of st
HoldsRowsOf(st, path, frame) ==
    /\ path \in DOMAIN st
    /\ \A i \in 1..Len(frame.rows) :
          \E j \in 1..Len(st[path].rows) :
              st[path].rows[j].fact_uid = frame.rows[i].fact_uid

\* an iteration of the chunk loop that reached the partition loop is ending
ChunkWritten ==
    /\ pc = "loop"
    /\ chunk_idx' = chunk_idx + 1
    /\ chunk_idx \notin faults.read
    /\ ~IsError(EnrichedChunk(chunk_idx))

\* C12: when write_partition_idempotent raises for one partition combination of
\* a chunk, the file at its path is left as it was and the path is not in the
\* returned list, every other combination of the chunk is written and listed,
\* the chunk is counted as processed and the loop goes on with the next chunk
C12_PartitionLocalRecovery ==
    [][ChunkWritten =>
          LET entry == chunk_log'[Len(chunk_log')]
              enriched == EnrichedChunk(chunk_idx)
          IN  /\ \A k \in 1..Len(CombosOf(chunk_idx)) :
                    LET path == PathOf(chunk_idx, k)
                    IN  IF WriteFails(store, chunk_idx, k)
                        THEN /\ path \notin Range(entry.created)
                             /\ path \in DOMAIN store' <=> path \in DOMAIN store
                             /\ path \in DOMAIN store => store'[path] = store[path]
                        ELSE /\ path \in Range(entry.created)
                             /\ HoldsRowsOf(store', path,
                                            PartitionData(enriched,
                                                          CombosOf(chunk_idx)[k]))
              /\ ~entry.error
              /\ processed_rows' = processed_rows + entry.height
              /\ pc' = "loop"]_vars

-----------------------------------------------------------------------------
(* write_partition_idempotent, called for a path that holds a file *)

\* the s3_path of the call
WRITE_PATH == <<"s","3",":","/","/","b","k","/","f">>

InitWrite ==
    /\ AtRest
    /\ pc = "write"
    /\ arg \in [existing_data : MergeFrames({"str"}),
                new_data      : MergeFrames({"str", "i64"}),
                io            : {"ok", "get", "put"}]
    /\ ret = <<>>
    /\ removal = <<>>
    /\ hashseed \in 0..MaxHashSeed

\* one call against a store that holds existing_data at the path
WriteCall ==
    /\ pc = "write"
    /\ ret' = write_partition_idempotent((WRITE_PATH :> arg.existing_data),
                                        arg.new_data, WRITE_PATH, arg.io)
    /\ pc' = "written"
    /\ UNCHANGED <<etl3vars, runvars, etl1vars, arg, removal, hashseed>>

SpecWrite == InitWrite /\ [][WriteCall]_vars

\* pl.concat of the two frames raises: a column of both has two dtypes
CombineRaises(existing_data, new_data) ==
    \E c \in Range(CommonColumns(existing_data, new_data)) :
        existing_data.dtypes[c] # new_data.dtypes[c]

\* the call met a merge that failed: the existing file could not be read, or
\* combining it with the new rows raised
MergeFailed ==
    /\ pc = "written"
    /\ \/ arg.io = "get"
       \/ CombineRaises(arg.existing_data, arg.new_data)

\* C13: when merging into an existing partition file fails, the partition is
\* skipped: the file holds after the call what it held before
C13_FailedMergeLeavesFile ==
    MergeFailed => ret.store[WRITE_PATH] = arg.existing_data

-----------------------------------------------------------------------------
(* The summary run_etl3_pipeline returns, in SpecFaults *)

\* the chunks of log that completed without error
ChunksCompleted(log) == Cardinality({j \in 1..Len(log) : ~log[j].error})

\* C14: in the summary of a run the count of processed chunks is the number of
\* chunks that completed without error, so that a run that dropped chunks can be
\* told from a complete run by its summary
C14_SummaryCountsCompletedChunks ==
    RunReturned => summary.total_chunks_processed = ChunksCompleted(chunk_log)

-----------------------------------------------------------------------------
(* _enrich_fact_table with a file that lacks a join key, in SpecFaults *)

\* C17: a reference table that is loaded without its join-key column, or a
\* chunk without it, is not an error: every chunk of the run is processed
\* without error and written
C17_MissingJoinKeyIsNoError ==
    faults.no_key # {} =>
        \A j \in 1..Len(chunk_log) :
            /\ ~chunk_log[j].error
            /\ chunk_log[j].created # <<>>

-----------------------------------------------------------------------------
(* validate_partition_data inside _create_partitions_for_chunk, in SpecFaults *)

\* what the enriched chunk idx leaves, starting from the store st, when it is
\* written without the validator (config None)
WrittenUnvalidated(st, enriched, idx) ==
    _create_partitions_for_chunk(st, enriched, PARTITION_COLUMNS, S3_PREFIX, FALSE,
                                 ChunkIo(idx, Len(enriched.rows)))

\* what the validator finds in chunk idx
Findings(idx) == validate_partition_data(EnrichedChunk(idx), PARTITION_COLUMNS)

\* C19: the findings of validate_partition_data are advisory: whatever it
\* reports, the chunk leaves the partition files and the list of written paths
\* that it would leave without validation, and is not aborted
C19_ValidationIsAdvisory ==
    [][(pc = "loop" /\ chunk_idx' = chunk_idx + 1 /\ chunk_idx \notin faults.read) =>
          \A enriched \in {EnrichedChunk(chunk_idx)} :
              ~IsError(enriched) =>
                  \A written \in {WrittenUnvalidated(store, enriched, chunk_idx)} :
                      /\ store' = written.store
                      /\ chunk_log'[Len(chunk_log')].created = written.created
                      /\ ~chunk_log'[Len(chunk_log')].error
                      /\ pc' = "loop"]_vars

\* a chunk with findings was written, and so was a chunk without any
C19_Witness ==
    /\ faults.no_key = {}
    /\ \E j \in 1..Len(chunk_log) :
          /\ ~chunk_log[j].error
          /\ chunk_log[j].created # <<>>
          /\ \E found \in {Findings(j - 1)} :
                 IsError(found) /\ found.issues # {}
    /\ \E j \in 1..Len(chunk_log) :
          /\ chunk_log[j].created # <<>>
          /\ ~IsError(Findings(j - 1))

-----------------------------------------------------------------------------
(* ScalableETL1.run_pipeline: etl1_scalable.py run_pipeline *)
(* A row of an input file is represented by whether it has values in the    *)
(* key columns of the dimension tables, a staged or final file by the source *)
(* rows its rows derive from: <<file, offset>> pairs.                        *)

\* longest input file, in rows
MaxFileRows == 6
\* largest chunk_size of a run
MaxChunkSize == 3

RATES_TABLES == {"dim_code", "dim_payer", "dim_provider_group", "dim_pos_set"}
PROVIDERS_TABLES == {"dim_provider_group", "xref_pg_npi", "xref_pg_tin"}

\* config.get_output_files(): the tables of the run, in dict order
OUTPUT_TABLES ==
    <<"dim_code", "dim_payer", "dim_provider_group", "dim_pos_set", "xref_pg_npi",
      "xref_pg_tin", "fact_rate">>

\* memory readings: process_mb in percent of config.memory_limit_mb,
\* system_available_gb in tenths of a GB
MemoryReadings == [process : {50, 75, 90}, available : {4, 10}]

\* the check of the first input file only
RatesFileExists(rates, providers) == rates # None

\* rates_file.exists() and providers_file.exists(): what lets the run go on
\* instead of raising FileNotFoundError
InputFilesExist(rates, providers) == rates # None /\ providers # None

\* check_memory_limits(): False above 70% of the limit or under 0.5 GB available
check_memory_limits(memory) ==
    ~(memory.process > 70) /\ ~(memory.available < 5)

\* a memory check that is made after every chunk
MemoryCheckAlways(idx) == TRUE

\* if chunk_idx % 5 == 0: the chunks after which the limits are checked
MemoryCheckDue(idx) == idx % 5 = 0

\* the warning check_memory_limits() logs, by name: "High memory usage", or
\* "Low system memory" if the first test passed, or none
LimitWarnings(memory) ==
    IF memory.process > 70 THEN {"high"}
    ELSE IF memory.available < 5 THEN {"low"} ELSE {}

\* the warnings of one memory check of the chunk loop: those of
\* check_memory_limits, "pressure" ("Memory pressure detected") if it failed
\* and "hard" ("Memory still high after cleanup") if the reading taken after
\* gc.collect() is above 80% of the limit
MemoryLog(memory, after) ==
    LimitWarnings(memory)
    \cup (IF check_memory_limits(memory) THEN {}
          ELSE {"pressure"} \cup (IF after.process > 80 THEN {"hard"} ELSE {}))

\* the readings of which only process_mb is used
ProcessReadings == [process : {50, 75, 90}]

\* what the end of the iteration of chunk idx did about memory, with the
\* readings in the order taken: cleanup_memory() reads sampled for its debug
\* line; if the check is due check_memory_limits() reads memory, and if that
\* fails the loop reads after, once gc.collect() ran
MemoryStep(idx, sampled, memory, after) ==
    [chunk    |-> idx,
     readings |-> <<sampled>>
                  \o (IF MemoryCheckDue(idx) THEN <<memory>> ELSE <<>>)
                  \o (IF MemoryCheckDue(idx) /\ ~check_memory_limits(memory)
                      THEN <<after>> ELSE <<>>),
     logged   |-> IF MemoryCheckDue(idx) THEN MemoryLog(memory, after) ELSE {}]

\* the ways the iteration of chunk idx can end
MemorySteps(idx) ==
    LET first == CHOOSE r \in MemoryReadings : TRUE
        last  == CHOOSE r \in ProcessReadings : TRUE
    IN  { MemoryStep(idx, q[1], q[2], q[3]) :
            q \in { r \in ProcessReadings \X MemoryReadings \X ProcessReadings :
                      \* a reading that is not taken is not a choice
                      /\ (~MemoryCheckDue(idx)) => r[2] = first
                      /\ (~MemoryCheckDue(idx) \/ check_memory_limits(r[2]))
                            => r[3] = last } }

\* the two kinds of input rows
KEYED == "keyed"
UNKEYED == "unkeyed"

\* a row yields a row of the fact table, and of a dimension table if it has
\* its keys: drop_nulls(subset=<keys>) removes the others
Yields(row, table) == table = "fact_rate" \/ row = KEYED

\* the source rows of a slice that yield a row of table, as <<file, offset>>
RowsFor(file, rows, chunk_start, table) ==
    SelectSeq(AsList([i \in 1..Len(rows) |-> <<file, chunk_start + i - 1>>]),
              LAMBDA r : Yields(rows[r[2] - chunk_start + 1], table))

\* write_chunk_to_temp for every table of tables whose frame is not empty: the
\* temp file of the table and the chunk is written, replacing one of that name
RECURSIVE StageChunk(_, _, _, _, _, _)
StageChunk(st, file, rows, chunk_start, idx, tables) ==
    IF tables = {} THEN st
    ELSE LET table == CHOOSE t \in tables : TRUE
             df_new == RowsFor(file, rows, chunk_start, table)
             rest == StageChunk(st, file, rows, chunk_start, idx, tables \ {table})
         IN  IF df_new = <<>> THEN rest
             ELSE (<<table, idx>> :> df_new) @@ rest

\* temp_dir.glob(f"{table_name}_chunk_*.parquet"): the chunk numbers staged
TempChunks(st, table_name) == {k[2] : k \in {x \in DOMAIN st : x[1] = table_name}}

\* A final file is represented by its rows and how often each is in it: a
\* function from row to count. The order of its rows is not part of the
\* state, since list(temp_dir.glob(...)) hands the staged files to the merge
\* in the order the directory lists them, a different one for every table,
\* and SELECT without ORDER BY fixes none
RowsOfFile(rows) == [r \in Range(rows) |-> Count(rows, r)]

\* the number of copies of row r in the staged files chunks of a table
RECURSIVE CopiesStaged(_, _, _, _)
CopiesStaged(st, table_name, chunks, r) ==
    IF chunks = {} THEN 0
    ELSE LET c == CHOOSE x \in chunks : TRUE
         IN  Count(st[<<table_name, c>>], r)
                 + CopiesStaged(st, table_name, chunks \ {c}, r)

\* read_parquet([files]): every row of every staged file of the table
ReadParquet(st, table_name, chunks) ==
    [r \in UNION {Range(st[<<table_name, c>>]) : c \in chunks} |->
        CopiesStaged(st, table_name, chunks, r)]

\* what merge_temp_files writes to output_path from the staged files of a
\* table: a single file is renamed to it; of several the fact table gets
\* every row (SELECT *), a dimension table one copy of every distinct row
\* (SELECT DISTINCT *)
MergedFile(st, table_name, chunks) ==
    IF Cardinality(chunks) = 1 \/ table_name = "fact_rate"
    THEN ReadParquet(st, table_name, chunks)
    ELSE [r \in DOMAIN ReadParquet(st, table_name, chunks) |-> 1]

\* the exception of a merge whose output file another process holds open:
\* os.rename of the single staged file fails, or the COPY of several does
MergeError(chunks) ==
    IF Cardinality(chunks) = 1 THEN "PermissionError" ELSE "IOException"

\* the final merge step: merge_temp_files for the tables from position i on.
\* A table without temp files is left alone; otherwise its output file is
\* written from its temp files and the temp files are removed. An output
\* file that exists and is held open cannot be replaced: the merge of its
\* table raises, its temp files and those of the tables after it stay
RECURSIVE MergeAll(_, _, _, _)
MergeAll(st, outs, locked, i) ==
    IF i > Len(OUTPUT_TABLES) THEN [staging |-> st, outputs |-> outs, error |-> <<>>]
    ELSE LET table_name == OUTPUT_TABLES[i]
             chunks == TempChunks(st, table_name)
         IN  IF chunks = {} THEN MergeAll(st, outs, locked, i + 1)
             ELSE IF table_name \in locked /\ table_name \in DOMAIN outs
             THEN [staging |-> st, outputs |-> outs,
                   error |-> Raised(MergeError(chunks))]
             ELSE MergeAll(
                    [k \in DOMAIN st \ {<<table_name, c>> : c \in chunks} |-> st[k]],
                    (table_name :> MergedFile(st, table_name, chunks)) @@ outs,
                    locked, i + 1)

\* the input files a run may find
RatesFiles ==
    {None} \cup {AsList([i \in 1..n |-> row]) :
                    n \in 0..MaxFileRows, row \in {KEYED, UNKEYED}}
ProvidersFiles ==
    {None} \cup {AsList([i \in 1..n |-> KEYED]) : n \in 0..MaxChunkSize}

\* what an earlier run may have left behind
OLD_ROW == <<"old", 0>>
LeftoverStaging == (<<"fact_rate", 0>> :> <<OLD_ROW>>)
ExistingOutputs == [t \in Range(OUTPUT_TABLES) |-> RowsOfFile(<<OLD_ROW>>)]

\* the output files another process may hold open when the run starts, so
\* that os.remove and os.rename fail on them: none, the first or the last
LockedOutputs(outs) ==
    {L \in {{}, {"dim_code"}, {"fact_rate"}} : L \subseteq DOMAIN outs}

\* force_cleanup_existing_file(file_path, max_retries=3)
FORCE_CLEANUP_RETRIES == 3

\* the state of a run at the call of run_pipeline
Etl1RunStart(size, force, locked, outs) ==
    [pc |-> "start", chunk_size |-> size, force_cleanup |-> force,
     chunk_idx |-> 0, processed_rates |-> 0,
     processed_providers |-> 0, slices |-> <<>>, warnings |-> 0,
     \* the merge loop has run to its end
     compacted |-> FALSE,
     \* the output files as the call found them
     before |-> outs,
     \* no iteration has ended yet
     last_check |-> [chunk |-> -1, readings |-> <<>>, logged |-> {}],
     \* the force cleanup loop: the table it is at, the attempt of
     \* force_cleanup_existing_file, and the seconds slept so far
     table_idx |-> 1, attempt |-> 0, sleeps |-> 0,
     \* the output files held open by another process
     locked |-> locked,
     \* the exception the run raised, if it did
     error |-> <<>>]

InitEtl1Run ==
    /\ Etl3AtRest
    /\ Etl1AtRest
    /\ rates_file \in RatesFiles
    /\ providers_file \in ProvidersFiles
    /\ staging \in {<<>>, LeftoverStaging}
    /\ outputs \in {<<>>, ExistingOutputs}
    /\ \E size \in 1..MaxChunkSize, force \in BOOLEAN,
          locked \in LockedOutputs(outputs) :
          etl1_run = Etl1RunStart(size, force, locked, outputs)
    /\ unified = <<>>
    /\ writers = <<>>
    /\ pc = "etl1"
    /\ arg = <<>>
    /\ ret = <<>>
    /\ removal = <<>>
    /\ hashseed = 0

\* from the call to the force cleanup: the temp_chunks directories are
\* removed, errors ignored
Etl1Begin ==
    /\ pc = "etl1"
    /\ etl1_run.pc = "start"
    /\ staging' = <<>>
    /\ etl1_run' = [etl1_run EXCEPT
                      !.pc = IF etl1_run.force_cleanup THEN "cleanup" ELSE "verify"]
    /\ UNCHANGED <<etl3vars, etl1vars, rates_file, providers_file, outputs, unified,
                   writers, fnvars>>

\* the force cleanup goes on to the next output file, or to the input check
\* after the last
NextOutputFile(r) ==
    [r EXCEPT !.table_idx = @ + 1, !.attempt = 0,
              !.pc = IF r.table_idx = Len(OUTPUT_TABLES) THEN "verify" ELSE "cleanup"]

\* one attempt of force_cleanup_existing_file for the output file the loop is
\* at. A file that is not there needs nothing; os.remove removes a file
\* unless it is held open, and then the call sleeps before the next attempt,
\* or gives up after the last one. The loop does not look at the result
Etl1ForceCleanup ==
    /\ pc = "etl1"
    /\ etl1_run.pc = "cleanup"
    /\ LET table_name == OUTPUT_TABLES[etl1_run.table_idx]
       IN  IF table_name \notin DOMAIN outputs
           THEN /\ etl1_run' = NextOutputFile(etl1_run)
                /\ UNCHANGED outputs
           ELSE IF table_name \notin etl1_run.locked
           THEN /\ outputs' = IF DOMAIN outputs = {table_name} THEN <<>>
                              ELSE [t \in DOMAIN outputs \ {table_name} |-> outputs[t]]
                /\ etl1_run' = NextOutputFile(etl1_run)
           ELSE /\ etl1_run' = IF etl1_run.attempt < FORCE_CLEANUP_RETRIES - 1
                               THEN [etl1_run EXCEPT !.pc = "cleanup_sleep"]
                               ELSE NextOutputFile(etl1_run)
                /\ UNCHANGED outputs
    /\ UNCHANGED <<etl3vars, etl1vars, rates_file, providers_file, staging, unified,
                   writers, fnvars>>

\* time.sleep(1) between two attempts is over
Etl1CleanupSleep ==
    /\ pc = "etl1"
    /\ etl1_run.pc = "cleanup_sleep"
    /\ etl1_run' = [etl1_run EXCEPT !.pc = "cleanup", !.attempt = @ + 1,
                                    !.sleeps = @ + 1]
    /\ UNCHANGED <<etl3vars, etl1vars, rates_file, providers_file, staging, outputs,
                   unified, writers, fnvars>>

\* the process that held output files open closes them, at any time of the run
Etl1LockReleased ==
    /\ pc = "etl1"
    /\ etl1_run.pc \notin {"returned", "raised"}
    /\ etl1_run.locked # {}
    /\ etl1_run' = [etl1_run EXCEPT !.locked = {}]
    /\ UNCHANGED <<etl3vars, etl1vars, rates_file, providers_file, staging, outputs,
                   unified, writers, fnvars>>

\* the input files are checked: FileNotFoundError is raised if one is
\* missing, else the rates loop starts
Etl1VerifyInputs ==
    /\ pc = "etl1"
    /\ etl1_run.pc = "verify"
    /\ etl1_run' = IF InputFilesExist(rates_file, providers_file)
                   THEN [etl1_run EXCEPT !.pc = "rates"]
                   ELSE [etl1_run EXCEPT !.pc = "raised",
                                         !.error = Raised("FileNotFoundError")]
    /\ UNCHANGED <<etl3vars, etl1vars, rates_file, providers_file, staging, outputs,
                   unified, writers, fnvars>>

\* stages.index(name): the position of name in a list that holds it
IndexOf(stages, name) == CHOOSE i \in 1..Len(stages) : stages[i] = name

\* run_pipeline has no handler, so an exception of an iteration leaves the
\* call. The places of an iteration where one can arise: the load and the
\* processing of the chunk ("process"), before anything of the chunk is
\* staged, and each write_chunk_to_temp that writes a file; a frame without
\* rows is not written
RaisePoints(file, rows, chunk_start, tables) ==
    {"process"} \cup {t \in tables : RowsFor(file, rows, chunk_start, t) # <<>>}

\* the tables of an iteration whose writes come before the one at point; the
\* writes follow the order of the dict of frames, then the fact table
WrittenBefore(tables, point) ==
    IF point = "process" THEN {}
    ELSE {t \in tables : IndexOf(OUTPUT_TABLES, t) < IndexOf(OUTPUT_TABLES, point)}

\* the run after an exception of an iteration: nothing is counted, and the
\* memory is not read
ChunkFailed(r) == [r EXCEPT !.pc = "raised", !.error = Raised("Exception")]

\* one iteration of the rates loop: slice, stage the dimensions and the fact
\* table, count, and every fifth chunk check the memory; or an exception at
\* one of its raise points ends the run with the earlier writes staged
Etl1RatesChunk ==
    /\ pc = "etl1"
    /\ etl1_run.pc = "rates"
    /\ etl1_run.chunk_idx < TotalChunks(Len(rates_file), etl1_run.chunk_size)
    /\ LET idx == etl1_run.chunk_idx
           chunk_start == idx * etl1_run.chunk_size
           rates_chunk == SliceRows(rates_file, chunk_start, etl1_run.chunk_size)
           tables == RATES_TABLES \cup {"fact_rate"}
       IN  \/ /\ staging' = StageChunk(staging, "rates", rates_chunk, chunk_start,
                                       idx, tables)
              /\ \E check \in MemorySteps(idx) :
                    etl1_run' = [etl1_run EXCEPT
                        !.last_check = check,
                        !.chunk_idx = idx + 1,
                        !.processed_rates = @ + Len(rates_chunk),
                        !.slices = Append(@, [file |-> "rates",
                                              chunk_start |-> chunk_start,
                                              height |-> Len(rates_chunk)]),
                        !.warnings = @ + Cardinality(check.logged)]
           \/ \E point \in RaisePoints("rates", rates_chunk, chunk_start, tables) :
                 /\ staging' = StageChunk(staging, "rates", rates_chunk,
                                          chunk_start, idx,
                                          WrittenBefore(tables, point))
                 /\ etl1_run' = ChunkFailed(etl1_run)
    /\ UNCHANGED <<etl3vars, etl1vars, rates_file, providers_file, outputs, unified,
                   writers, fnvars>>

\* the rates loop is over: the providers loop starts
Etl1RatesDone ==
    /\ pc = "etl1"
    /\ etl1_run.pc = "rates"
    /\ etl1_run.chunk_idx = TotalChunks(Len(rates_file), etl1_run.chunk_size)
    /\ etl1_run' = [etl1_run EXCEPT !.pc = "providers", !.chunk_idx = 0]
    /\ UNCHANGED <<etl3vars, etl1vars, rates_file, providers_file, staging, outputs,
                   unified, writers, fnvars>>

\* one iteration of the providers loop, or an exception at one of its raise
\* points
Etl1ProvidersChunk ==
    /\ pc = "etl1"
    /\ etl1_run.pc = "providers"
    /\ etl1_run.chunk_idx < TotalChunks(Len(providers_file), etl1_run.chunk_size)
    /\ LET idx == etl1_run.chunk_idx
           chunk_start == idx * etl1_run.chunk_size
           providers_chunk == SliceRows(providers_file, chunk_start,
                                        etl1_run.chunk_size)
       IN  \/ /\ staging' = StageChunk(staging, "providers", providers_chunk,
                                       chunk_start, idx, PROVIDERS_TABLES)
              /\ \E check \in MemorySteps(idx) :
                    etl1_run' = [etl1_run EXCEPT
                        !.last_check = check,
                        !.chunk_idx = idx + 1,
                        !.processed_providers = @ + Len(providers_chunk),
                        !.slices = Append(@, [file |-> "providers",
                                              chunk_start |-> chunk_start,
                                              height |-> Len(providers_chunk)]),
                        !.warnings = @ + Cardinality(check.logged)]
           \/ \E point \in RaisePoints("providers", providers_chunk, chunk_start,
                                       PROVIDERS_TABLES) :
                 /\ staging' = StageChunk(staging, "providers", providers_chunk,
                                          chunk_start, idx,
                                          WrittenBefore(PROVIDERS_TABLES, point))
                 /\ etl1_run' = ChunkFailed(etl1_run)
    /\ UNCHANGED <<etl3vars, etl1vars, rates_file, providers_file, outputs, unified,
                   writers, fnvars>>

\* the providers loop is over: the tables are merged one after the other and
\* the summary is returned, unless the merge of a table raises, which ends
\* the run with the tables before it merged
Etl1Merge ==
    /\ pc = "etl1"
    /\ etl1_run.pc = "providers"
    /\ etl1_run.chunk_idx = TotalChunks(Len(providers_file), etl1_run.chunk_size)
    /\ \E merged \in {MergeAll(staging, outputs, etl1_run.locked, 1)} :
          /\ staging' = merged.staging
          /\ outputs' = merged.outputs
          /\ etl1_run' = IF ~IsError(merged.error)
                         THEN [etl1_run EXCEPT !.pc = "returned", !.compacted = TRUE]
                         ELSE [etl1_run EXCEPT !.pc = "raised",
                                               !.error = merged.error]
    /\ UNCHANGED <<etl3vars, etl1vars, rates_file, providers_file, unified, writers,
                   fnvars>>

NextEtl1Run ==
    \/ Etl1Begin \/ Etl1ForceCleanup \/ Etl1CleanupSleep \/ Etl1LockReleased
    \/ Etl1VerifyInputs
    \/ Etl1RatesChunk \/ Etl1RatesDone \/ Etl1ProvidersChunk \/ Etl1Merge

SpecEtl1Run == InitEtl1Run /\ [][NextEtl1Run]_vars

\* an input file of the run is missing
InputMissing == rates_file = None \/ providers_file = None

\* the run is past the check of its input files
PastInputCheck == etl1_run.pc \notin {"start", "cleanup", "cleanup_sleep", "verify"}

\* C15: run_pipeline for a payer whose rates or providers input file does not
\* exist fails fast with FileNotFoundError: no chunk is read, no staging file is
\* written, no table is compacted, and nothing is done after the raise
C15_MissingInputFailsFast ==
    /\ []((pc = "etl1" /\ InputMissing /\ PastInputCheck) =>
            /\ etl1_run.pc = "raised"
            /\ IsError(etl1_run.error)
            /\ etl1_run.error.error = "FileNotFoundError"
            /\ etl1_run.slices = <<>>
            /\ etl1_run.processed_rates = 0
            /\ etl1_run.processed_providers = 0
            /\ staging = <<>>
            /\ ~etl1_run.compacted)
    /\ [][pc = "etl1" => etl1_run.pc # "raised"]_vars

\* the run raised because the providers file is missing, the rates file is not
C15_Witness ==
    /\ pc = "etl1"
    /\ etl1_run.pc = "raised"
    /\ rates_file # None
    /\ Len(rates_file) > 0
    /\ providers_file = None

-----------------------------------------------------------------------------
(* The chunk loops of run_etl3_pipeline and ScalableETL1.run_pipeline *)

\* a fact table of total_rows rows for run_etl3_pipeline
InitChunks ==
    /\ \E total_rows \in 0..MaxFileRows :
          fact_rate = AsList([i \in 1..total_rows |-> FactRow(<<"g","1">>, 150000)])
    /\ xrefs = {}
    /\ chunk_size \in 1..MaxChunkSize
    /\ chunk_idx = 0
    /\ run = 0
    /\ store = <<>>
    /\ processed_rows = 0
    /\ total_partitions = 0
    /\ first_run_store = <<>>
    /\ faults = NoFaults
    /\ chunk_log = <<>>
    /\ summary = <<>>
    /\ athena = <<>>
    /\ Etl1AtRest
    /\ RunAtRest
    /\ pc = "idle"
    /\ arg = <<>>
    /\ ret = <<>>
    /\ removal = <<>>
    /\ hashseed = 0

\* either program is run
SpecChunks == (InitChunks \/ InitEtl1Run) /\ [][Next \/ NextEtl1Run]_vars

\* ceil(T / N)
CeilDiv(T, N) == IF T % N = 0 THEN T \div N ELSE (T \div N) + 1

\* the slices read so far are the first slices of size N of a table of T rows:
\* at offsets 0, N, 2N, ..., each of at most N rows and reaching the next offset
\* or the end of the table
SlicesInOrder(slices, T, N) ==
    \A j \in 1..Len(slices) :
        /\ slices[j].chunk_start = (j - 1) * N
        /\ slices[j].chunk_start < T
        /\ slices[j].height <= N
        /\ slices[j].height = (IF j * N <= T THEN N ELSE T - (j - 1) * N)

\* the loop has ended: it read ceil(T / N) slices and every row offset of the
\* table is in exactly one of them
SlicesCover(slices, T, N) ==
    /\ Len(slices) = CeilDiv(T, N)
    /\ \A offset \in 0..(T - 1) :
          Cardinality({j \in 1..Len(slices) :
                          /\ slices[j].chunk_start <= offset
                          /\ offset < slices[j].chunk_start + slices[j].height}) = 1

\* the slices the run of ScalableETL1 read of one input file
SlicesOf(file) == SelectSeq(etl1_run.slices, LAMBDA s : s.file = file)

\* C16: for a table of T >= 0 rows and a chunk size N >= 1 each chunk loop reads
\* the slices at offsets 0, N, 2N, ... in increasing order, each of at most N
\* rows, none twice, and ends after ceil(T / N) slices with every row offset in
\* exactly one slice
C16_SlicesCoverTableOnce ==
    /\ pc \in {"idle", "loop"} =>
          /\ SlicesInOrder(chunk_log, Len(fact_rate), chunk_size)
          /\ RunEnded => SlicesCover(chunk_log, Len(fact_rate), chunk_size)
    /\ (pc = "etl1" /\ etl1_run.pc \in {"rates", "providers", "returned"}) =>
          /\ SlicesInOrder(SlicesOf("rates"), Len(rates_file), etl1_run.chunk_size)
          /\ SlicesInOrder(SlicesOf("providers"), Len(providers_file),
                           etl1_run.chunk_size)
          /\ etl1_run.pc \in {"providers", "returned"} =>
                SlicesCover(SlicesOf("rates"), Len(rates_file), etl1_run.chunk_size)
          /\ etl1_run.pc = "returned" =>
                SlicesCover(SlicesOf("providers"), Len(providers_file),
                            etl1_run.chunk_size)

\* a run of ScalableETL1 returned after a rates loop of at least three slices,
\* the last of them shorter than the chunk size
C16_Witness ==
    /\ pc = "etl1"
    /\ etl1_run.pc = "returned"
    /\ Len(SlicesOf("rates")) >= 3
    /\ SlicesOf("rates")[Len(SlicesOf("rates"))].height < etl1_run.chunk_size
    /\ Len(SlicesOf("providers")) >= 1

-----------------------------------------------------------------------------
(* UnifiedETLPipeline.run: run_unified_etl_pipeline.py *)

\* PipelineConfig.stages when none is given
ETL1_STAGE == <<"e","t","l","1">>
NPI_STAGE == <<"n","p","i">>
GEOCODING_STAGE == <<"g","e","o","c","o","d","i","n","g">>
ETL3_STAGE == <<"e","t","l","3">>
STAGES == <<ETL1_STAGE, NPI_STAGE, GEOCODING_STAGE, ETL3_STAGE>>

\* PipelineStage.should_run()
should_run(config, name) ==
    IF name \in config.skip_stages THEN FALSE
    ELSE IF config.resume_from # None /\ config.resume_from # <<>>
    THEN IF config.resume_from \in Range(config.stages)
         THEN IndexOf(config.stages, name) >= IndexOf(config.stages, config.resume_from)
         ELSE TRUE
    ELSE name \in Range(config.stages)

\* a monitor that only warns
check_memory_health_advisory(memory, after) ==
    [healthy |-> TRUE, warnings |-> IF memory.process > 70 THEN 1 ELSE 0]

\* MemoryManager.check_memory_health(stage): memory is the first reading, after
\* the reading taken after force_cleanup(). Above 70% of the limit it counts a
\* warning, and fails if the process is still above 80% after the cleanup; it
\* fails too if less than 0.5 GB is available
check_memory_health(memory, after) ==
    [healthy  |-> /\ ~(memory.process > 70 /\ after.process > 80)
                  /\ ~(memory.available < 5),
     warnings |-> IF memory.process > 70 THEN 1 ELSE 0]

\* the rows of the rates file of a unified run, and the chunk_size of the run
MaxStageRows == 2
MaxStageChunk == 1

UnifiedConfigs ==
    [stages        : {STAGES},
     skip_stages   : SUBSET {NPI_STAGE, GEOCODING_STAGE},
     resume_from   : {None, NPI_STAGE, <<"x">>},
     dry_run       : BOOLEAN,
     chunk_size    : {MaxStageChunk},
     force_cleanup : BOOLEAN]

\* the readings of one check_memory_health call, <<memory, memory_after>>:
\* the second is taken only when the first is above 70% of the limit, and
\* only its process_mb is read
HealthReadings ==
    {g \in MemoryReadings \X MemoryReadings :
        IF g[1].process > 70 THEN g[2].available = g[1].available ELSE g[2] = g[1]}

\* the input files a unified run may find
UnifiedRatesFiles == {None, AsList([i \in 1..MaxStageRows |-> KEYED])}
UnifiedProvidersFiles == {None, <<KEYED>>}

InitUnified ==
    /\ Etl3AtRest
    /\ Etl1AtRest
    /\ rates_file \in UnifiedRatesFiles
    /\ providers_file \in UnifiedProvidersFiles
    /\ staging = <<>>
    /\ outputs \in {<<>>, ExistingOutputs}
    /\ etl1_run = <<>>
    /\ \E config \in UnifiedConfigs :
          unified = [config |-> config, pc |-> "start", stage |-> 1,
                     executed |-> <<>>, all_success |-> TRUE, memory_warnings |-> 0,
                     prerequisites |-> TRUE, stage_failed |-> FALSE,
                     gate |-> <<>>]
    /\ writers = <<>>
    /\ pc = "unified"
    /\ arg = <<>>
    /\ ret = <<>>
    /\ removal = <<>>
    /\ hashseed = 0

\* run() up to the stage loop: validate_prerequisites() wants both input
\* files of ETL1 and, for ETL3, AWS credentials
UnifiedBegin ==
    /\ pc = "unified"
    /\ unified.pc = "start"
    /\ \E credentials \in BOOLEAN :
          LET valid == InputFilesExist(rates_file, providers_file) /\ credentials
          IN  unified' = [unified EXCEPT
                             !.prerequisites = valid,
                             !.all_success = valid,
                             !.pc = IF valid /\ unified.stage <= Len(unified.config.stages)
                                    THEN "stage" ELSE "returned"]
    /\ UNCHANGED <<etl3vars, etl1vars, rates_file, providers_file, staging, outputs,
                   etl1_run, writers, fnvars>>

\* the end of stage.run() once the stage was executed, with the result
\* success: memory is checked once more, the result of the check being
\* ignored, and the run goes on after a stage that succeeded
StageDone(u, name, success, post) ==
    [u EXCEPT !.memory_warnings = @ + check_memory_health(post[1], post[2]).warnings,
              !.executed = Append(@, name),
              !.stage_failed = ~success,
              !.all_success = success,
              !.pc = IF success THEN "between" ELSE "returned"]

\* stage.run() of the next stage up to the call of subprocess.run: a stage
\* that should not run is skipped; a failed memory check before the stage
\* returns False without executing it; a dry run executes nothing and
\* succeeds; otherwise execute() starts the program of the stage as a child
\* process and waits for it
UnifiedStageStart ==
    /\ pc = "unified"
    /\ unified.pc = "stage"
    /\ LET name == unified.config.stages[unified.stage]
       IN  IF ~should_run(unified.config, name)
           THEN /\ unified' = [unified EXCEPT !.pc = "between"]
                /\ UNCHANGED <<etl1_run, pc>>
           ELSE \E g \in HealthReadings :
                  LET before == check_memory_health(g[1], g[2])
                      checked == [unified EXCEPT
                                     !.memory_warnings = @ + before.warnings,
                                     !.gate = g]
                  IN  IF ~before.healthy
                      THEN /\ unified' = [checked EXCEPT !.all_success = FALSE,
                                                         !.pc = "returned"]
                           /\ UNCHANGED <<etl1_run, pc>>
                      ELSE IF unified.config.dry_run
                      THEN /\ \E post \in HealthReadings :
                                 unified' = StageDone(checked, name, TRUE, post)
                           /\ UNCHANGED <<etl1_run, pc>>
                      ELSE /\ unified' = [checked EXCEPT !.pc = "child"]
                           /\ IF name = ETL1_STAGE
                              \* 01_run_etl1_main.py runs etl1_scalable.py
                              THEN /\ pc' = "etl1"
                                   /\ \E locked \in LockedOutputs(outputs) :
                                         etl1_run' = Etl1RunStart(
                                             unified.config.chunk_size,
                                             unified.config.force_cleanup,
                                             locked, outputs)
                              ELSE IF name = ETL3_STAGE
                              THEN /\ pc' = "etl3"
                                   /\ UNCHANGED etl1_run
                              ELSE UNCHANGED <<etl1_run, pc>>
    /\ UNCHANGED <<etl3vars, etl1vars, rates_file, providers_file, staging, outputs,
                   writers, arg, ret, removal, hashseed>>

\* the number of rows of a final file
RECURSIVE RowCount(_, _)
RowCount(file, rows) ==
    IF rows = {} THEN 0
    ELSE LET r == CHOOSE x \in rows : TRUE
         IN  file[r] + RowCount(file, rows \ {r})

\* the files validate_prerequisites() of run_etl3.py looks for among those
\* ETL1 writes; it wants dim_npi.parquet and AWS credentials too
ETL3_REQUIRED == {"fact_rate", "dim_code", "dim_payer", "dim_provider_group"}

\* main() of run_etl3.py up to the call of run_etl3_pipeline: without its
\* prerequisites the program exits with 1; else the run is configured with
\* the chunk size of the command line. The fact table is the file ETL1
\* wrote, a cross-reference table is loaded if its file exists
Etl3Main ==
    /\ pc = "etl3"
    /\ \E dim_npi, credentials \in BOOLEAN :
          IF ETL3_REQUIRED \subseteq DOMAIN outputs /\ dim_npi /\ credentials
          THEN /\ pc' = "idle"
               /\ ret' = ret
               /\ fact_rate' =
                     AsList([i \in 1..RowCount(outputs["fact_rate"],
                                               DOMAIN outputs["fact_rate"])
                               |-> FactRow(<<"g","1">>, 150000)])
               /\ xrefs' = {x \in {"pg_member_npi", "pg_member_tin"} :
                               (IF x = "pg_member_npi" THEN "xref_pg_npi"
                                ELSE "xref_pg_tin") \in DOMAIN outputs}
               /\ chunk_size' = unified.config.chunk_size
          ELSE /\ pc' = "exited"
               /\ ret' = 1
               /\ UNCHANGED <<fact_rate, xrefs, chunk_size>>
    /\ UNCHANGED <<chunk_idx, run, store, processed_rows, total_partitions,
                   first_run_store, faults, chunk_log, summary, athena, etl1vars,
                   runvars, arg, removal, hashseed>>

\* the child process of the stage has ended
ChildEnded(name) ==
    IF name = ETL1_STAGE THEN pc = "etl1" /\ etl1_run.pc \in {"returned", "raised"}
    ELSE IF name = ETL3_STAGE THEN pc = "exited" \/ (pc = "idle" /\ run >= 1)
    ELSE pc = "unified"

\* the exit codes the child process can have ended with: main() of
\* etl1_scalable.py and of run_etl3.py exit with 1 when the pipeline raised,
\* and 01_run_etl1_main.py hands the code on; the programs of the other two
\* stages are not followed, they succeed or fail
ExitCodes(name) ==
    IF name = ETL1_STAGE THEN {IF etl1_run.pc = "returned" THEN 0 ELSE 1}
    ELSE IF name = ETL3_STAGE
    THEN {IF pc = "idle" /\ ~IsError(summary) THEN 0 ELSE 1}
    ELSE {0, 1}

\* subprocess.run returns: execute() is True for exit code 0 and False for
\* CalledProcessError, and stage.run() ends. What the child wrote to disk
\* and to S3 stays, the state of its process is gone
UnifiedChildExit ==
    /\ InUnifiedRun
    /\ unified.pc = "child"
    /\ \E name \in {unified.config.stages[unified.stage]} :
          /\ ChildEnded(name)
          /\ \E code \in ExitCodes(name), post \in HealthReadings :
                unified' = StageDone(unified, name, code = 0, post)
    /\ pc' = "unified"
    /\ etl1_run' = <<>>
    /\ ret' = <<>>
    /\ fact_rate' = <<>>
    /\ xrefs' = {}
    /\ chunk_size' = 1
    /\ chunk_idx' = 0
    /\ run' = 0
    /\ processed_rows' = 0
    /\ total_partitions' = 0
    /\ first_run_store' = <<>>
    /\ chunk_log' = <<>>
    /\ summary' = <<>>
    /\ UNCHANGED <<store, faults, athena, etl1vars, rates_file, providers_file,
                   staging, outputs, writers, arg, removal, hashseed>>

\* the memory check between stages: if it fails the loop is left
UnifiedBetweenStages ==
    /\ pc = "unified"
    /\ unified.pc = "between"
    /\ \E g \in HealthReadings :
          LET between == check_memory_health(g[1], g[2])
          IN  unified' = [unified EXCEPT
                  !.memory_warnings = @ + between.warnings,
                  !.gate = g,
                  !.all_success = between.healthy,
                  !.stage = @ + 1,
                  !.pc = IF between.healthy /\ unified.stage < Len(unified.config.stages)
                         THEN "stage" ELSE "returned"]
    /\ UNCHANGED <<etl3vars, etl1vars, rates_file, providers_file, staging, outputs,
                   etl1_run, writers, fnvars>>

NextUnified ==
    \/ UnifiedBegin \/ UnifiedStageStart \/ Etl3Main \/ UnifiedChildExit
    \/ UnifiedBetweenStages

\* either program is run: ScalableETL1.run_pipeline by itself, or the unified
\* run with the programs of its stages as child processes
SpecMonitor ==
    (InitEtl1Run \/ InitUnified) /\ [][NextEtl1Run \/ NextUnified \/ Next]_vars

\* the stages of a configuration that should_run() lets run, in order
StagesToRun(config) == SelectSeq(config.stages, LAMBDA name : should_run(config, name))

\* a reading that fails check_memory_health(): the process is above 70% of the
\* limit and above 80% after the cleanup, or less than 0.5 GB is available
Unhealthy(gate) ==
    \/ gate[1].process > 70 /\ gate[2].process > 80
    \/ gate[1].available < 5

UnifiedReturned == InUnifiedRun /\ unified.pc = "returned"

\* C18 as stated: no memory reading stops either run. ScalableETL1.run_pipeline
\* processes every row of both files and compacts, and UnifiedETLPipeline.run,
\* when the prerequisites hold and no stage fails, executes every stage that
\* should run and succeeds.
C18_Original ==
    /\ (pc = "etl1" /\ etl1_run.pc = "returned") =>
          /\ etl1_run.processed_rates = Len(rates_file)
          /\ etl1_run.processed_providers = Len(providers_file)
          /\ etl1_run.compacted
    /\ (UnifiedReturned /\ unified.prerequisites /\ ~unified.stage_failed) =>
          /\ unified.executed = StagesToRun(unified.config)
          /\ unified.all_success

\* the step of an ETL1 run from the state before to the state after
Etl1Step == pc = "etl1" /\ pc' = "etl1" /\ etl1_run' # etl1_run

\* an iteration that logged a memory warning has gone on to the next chunk of
\* its loop
WarnedIterationGoesOn ==
    (Etl1Step /\ etl1_run'.warnings > etl1_run.warnings) =>
        /\ etl1_run.pc \in {"rates", "providers"}
        /\ etl1_run'.pc = etl1_run.pc
        /\ etl1_run'.chunk_idx = etl1_run.chunk_idx + 1

\* the step in which a run raises has read no memory and logged no warning
RaiseReadsNoMemory ==
    (Etl1Step /\ etl1_run'.pc = "raised") =>
        /\ etl1_run'.last_check = etl1_run.last_check
        /\ etl1_run'.warnings = etl1_run.warnings

\* what C18, amended, says of every state
MonitorGates ==
    /\ (pc = "etl1" /\ etl1_run.pc = "returned") =>
          /\ etl1_run.processed_rates = Len(rates_file)
          /\ etl1_run.processed_providers = Len(providers_file)
          /\ etl1_run.compacted
    /\ InUnifiedRun =>
          /\ \E n \in 0..Len(StagesToRun(unified.config)) :
                 unified.executed = SubSeq(StagesToRun(unified.config), 1, n)
          /\ (unified.gate # <<>> /\ Unhealthy(unified.gate)) =>
                 /\ unified.pc = "returned"
                 /\ ~unified.all_success
          /\ (unified.pc = "returned" /\ unified.prerequisites /\ ~unified.stage_failed) =>
                 \/ /\ unified.executed = StagesToRun(unified.config)
                    /\ unified.all_success
                 \/ /\ unified.gate # <<>>
                    /\ Unhealthy(unified.gate)
                    /\ ~unified.all_success

\* C18, amended: memory readings never stop ScalableETL1.run_pipeline: a run
\* that returned has processed every row of both files and compacted what was
\* read, an iteration that logged a memory warning goes on to the next chunk,
\* and a run never raises because of a memory reading. In
\* UnifiedETLPipeline.run a failed memory health check before a stage or between
\* two stages ends the run with failure and the remaining stages are not
\* executed; the stages executed are always a prefix of those that should run,
\* and a run whose prerequisites hold and in which no stage fails stops short of
\* all of them or fails only on such a check.
C18_MonitorGatesOnlyUnifiedRun ==
    /\ []MonitorGates
    /\ [][WarnedIterationGoesOn /\ RaiseReadsNoMemory]_vars

\* a unified run that a memory check stopped before its last stage
C18_Witness ==
    /\ UnifiedReturned
    /\ unified.prerequisites
    /\ ~unified.stage_failed
    /\ unified.gate # <<>>
    /\ Unhealthy(unified.gate)
    /\ unified.executed # <<>>
    /\ Len(unified.executed) < Len(StagesToRun(unified.config))

-----------------------------------------------------------------------------
(* Two pipeline runs in write_partition_idempotent on one partition path. Each *)
(* S3 call of the function is a step of its own; the function takes no lock   *)
(* and S3 offers none, so the steps of the two calls interleave freely.       *)

\* most rows a writer hands to write_partition_idempotent
MaxWriterRows == 1

WRITERS == {1, 2}

\* the partition_data of a writer
WriterFrames ==
    {MergeFrame("base", "str", rows) :
        rows \in SeqsUpTo(MergeRows, MaxWriterRows) \ {<<>>}}

\* the file an earlier run left at the path
EARLIER_FILE ==
    MergeFrame("base", "str", <<[fact_uid |-> <<"e">>, val |-> <<"1">>, extra |-> <<"x">>]>>)

\* a local frame not assigned yet
NO_FRAME == MergeFrame("base", "str", <<>>)

InitRace ==
    /\ Etl1AtRest
    /\ fact_rate = <<>>
    /\ xrefs = {}
    /\ chunk_size = 1
    /\ chunk_idx = 0
    /\ run = 0
    /\ store \in {<<>>, (WRITE_PATH :> EARLIER_FILE)}
    /\ processed_rows = 0
    /\ total_partitions = 0
    /\ first_run_store = <<>>
    /\ faults = NoFaults
    /\ chunk_log = <<>>
    /\ summary = <<>>
    /\ athena = <<>>
    /\ rates_file = None
    /\ providers_file = None
    /\ staging = <<>>
    /\ outputs = <<>>
    /\ etl1_run = <<>>
    /\ unified = <<>>
    /\ writers \in [WRITERS -> [pc : {"called"}, partition_data : WriterFrames,
                                existing_data : {NO_FRAME}, merged_data : {NO_FRAME},
                                overlapped : {FALSE}, order : {0}]]
    /\ pc = "race"
    /\ arg = <<>>
    /\ ret = <<>>
    /\ removal = <<>>
    /\ hashseed = 0

\* a call of the other run is between its first S3 call and its return
Running(w) == writers[w].pc \notin {"called", "returned"}

\* how many calls have returned
Returned == Cardinality({w \in WRITERS : writers[w].pc = "returned"})

\* if s3_etl.partition_exists(s3_path):
RaceExists(w) ==
    /\ pc = "race"
    /\ writers[w].pc = "called"
    /\ writers' = [writers EXCEPT
           ![w].pc = IF partition_exists(store, WRITE_PATH) THEN "read" ELSE "upload_new",
           ![w].overlapped = \E o \in WRITERS \ {w} : Running(o)]
    /\ UNCHANGED <<etl3vars, etl1vars, rates_file, providers_file, staging, outputs,
                   etl1_run, unified, fnvars>>

\* existing_data = s3_etl.read_partition(s3_path)
RaceRead(w) ==
    /\ pc = "race"
    /\ writers[w].pc = "read"
    /\ writers' = [writers EXCEPT ![w].pc = "merge",
                                  ![w].existing_data = store[WRITE_PATH]]
    /\ UNCHANGED <<etl3vars, etl1vars, rates_file, providers_file, staging, outputs,
                   etl1_run, unified, fnvars>>

\* merged_data = merge_partition_data(existing_data, partition_data)
RaceMerge(w) ==
    /\ pc = "race"
    /\ writers[w].pc = "merge"
    /\ writers' = [writers EXCEPT
           ![w].pc = "upload_merged",
           ![w].merged_data = merge_partition_data(writers[w].existing_data,
                                                   writers[w].partition_data)]
    /\ UNCHANGED <<etl3vars, etl1vars, rates_file, providers_file, staging, outputs,
                   etl1_run, unified, fnvars>>

\* s3_etl.upload_partition_to_s3(merged_data, s3_path); return s3_path
RaceUploadMerged(w) ==
    /\ pc = "race"
    /\ writers[w].pc = "upload_merged"
    /\ store' = (WRITE_PATH :> writers[w].merged_data) @@ store
    /\ writers' = [writers EXCEPT ![w].pc = "returned", ![w].order = Returned + 1]
    /\ UNCHANGED <<athena, fact_rate, xrefs, chunk_size, chunk_idx, run,
                   processed_rows,
                   total_partitions, first_run_store, faults, chunk_log, summary,
                   etl1vars, rates_file, providers_file, staging, outputs,
                   etl1_run, unified, fnvars>>

\* s3_etl.upload_partition_to_s3(partition_data, s3_path); return s3_path
RaceUploadNew(w) ==
    /\ pc = "race"
    /\ writers[w].pc = "upload_new"
    /\ store' = (WRITE_PATH :> writers[w].partition_data) @@ store
    /\ writers' = [writers EXCEPT ![w].pc = "returned", ![w].order = Returned + 1]
    /\ UNCHANGED <<athena, fact_rate, xrefs, chunk_size, chunk_idx, run,
                   processed_rows,
                   total_partitions, first_run_store, faults, chunk_log, summary,
                   etl1vars, rates_file, providers_file, staging, outputs,
                   etl1_run, unified, fnvars>>

NextRace ==
    \E w \in WRITERS :
        \/ RaceExists(w)
        \/ RaceRead(w)
        \/ RaceMerge(w)
        \/ RaceUploadMerged(w)
        \/ RaceUploadNew(w)

SpecRace == InitRace /\ [][NextRace]_vars

\* the fact_uid values of a frame
UidsOf(df) == {df.rows[i].fact_uid : i \in 1..Len(df.rows)}

BothReturned == pc = "race" /\ \A w \in WRITERS : writers[w].pc = "returned"

\* neither call began while the other was running
OneAfterTheOther == \A w \in WRITERS : ~writers[w].overlapped

\* a row one of the runs wrote is not in the partition file
LostUpdate ==
    \E w \in WRITERS :
        UidsOf(writers[w].partition_data) \ UidsOf(store[WRITE_PATH]) # {}

\* C20: once both calls on the path have returned, the file holds the rows of
\* the call that uploaded last; if the calls ran one after the other it holds
\* the rows of both and those of the file found at the path, so a row of a run
\* is missing only where the steps of the two calls interleaved (which the
\* function allows, taking no lock: the witness is such a final state).
C20_LostUpdateOnlyWhenInterleaved ==
    BothReturned =>
        /\ \A w \in WRITERS :
              writers[w].order = Cardinality(WRITERS) =>
                  UidsOf(writers[w].partition_data) \subseteq UidsOf(store[WRITE_PATH])
        /\ OneAfterTheOther =>
              /\ ~LostUpdate
              /\ \A w \in WRITERS :
                    UidsOf(writers[w].existing_data) \subseteq UidsOf(store[WRITE_PATH])
        /\ LostUpdate => ~OneAfterTheOther

\* both calls have returned, their steps interleaved, and the row of one run is
\* not in the file
C20_Witness ==
    /\ BothReturned
    /\ ~OneAfterTheOther
    /\ LostUpdate

\* both calls have returned, one after the other, and the file holds the rows
\* of both and of the earlier file
SequentialKeepsBoth ==
    /\ BothReturned
    /\ OneAfterTheOther
    /\ UidsOf(writers[1].partition_data) # UidsOf(writers[2].partition_data)
    /\ UidsOf(store[WRITE_PATH]) =
          UidsOf(writers[1].partition_data) \cup UidsOf(writers[2].partition_data)
              \cup {<<"e">>}

-----------------------------------------------------------------------------
(* What a run of ScalableETL1.run_pipeline does to the output files it found *)

Etl1Returned == pc = "etl1" /\ etl1_run.pc = "returned"

\* the rows of the file of a table, none if there is no file
RowsOfTable(files, t) == IF t \in DOMAIN files THEN DOMAIN files[t] ELSE {}

\* C21: run_pipeline upserts into its output tables: a row that was in an
\* output file before a run without force_cleanup is in that file when the run
\* has returned, or the file has a row with its dedup key (a source row is its
\* own key here, so that row is the row itself)
C21_RunUpsertsIntoOutputs ==
    (Etl1Returned /\ ~etl1_run.force_cleanup) =>
        \A t \in DOMAIN etl1_run.before :
            RowsOfTable(etl1_run.before, t) \subseteq RowsOfTable(outputs, t)

-----------------------------------------------------------------------------
(* The final file merge_temp_files leaves for a dimension table *)

\* merge_temp_files has returned and written the file of a dimension or
\* cross-reference table
DimensionMerged ==
    /\ pc = "merged"
    /\ arg.table_name # "fact_rate"
    /\ output_files # <<>>

\* C22: after merge_temp_files has compacted the staging files of a dimension
\* or cross-reference table, no two rows of the final file share the natural
\* key of the table
C22_OneRowPerNaturalKey ==
    DimensionMerged =>
        \A i, j \in 1..Len(output_files[1]) :
            output_files[1][i].key = output_files[1][j].key => i = j

-----------------------------------------------------------------------------
(* The number of files one statement of merge_temp_files reads *)

\* C23: bounded fan-in: whatever the number of staging files of a table, no
\* merge step of merge_temp_files reads more than max_files_per_batch files at
\* once, and when it has returned exactly one file remains
C23_BoundedFanIn ==
    /\ \A k \in 1..Len(merge_reads) : merge_reads[k] <= MAX_FILES_PER_BATCH
    /\ (pc = "merged" /\ temp_files # <<>>) =>
          /\ Len(output_files) = 1
          /\ temp_dir = [chunks |-> {}, batches |-> {}]

-----------------------------------------------------------------------------
(* The layout of the path create_s3_path builds for a partition key *)

\* the characters of the name of a configured partition column
ColumnChars(c) ==
    IF c = "primary_taxonomy_code"
    THEN <<"p","r","i","m","a","r","y","_","t","a","x","o","n","o","m","y","_",
           "c","o","d","e">>
    ELSE NameChars(c)

\* the path of a key with one column=value segment for each configured
\* partition column, in the configured order, the value sanitized and the month
\* padded to two digits
HivePath(key, prefix) ==
    LET segment(c) == ColumnChars(c) \o <<"=">>
                        \o (IF c = "month" THEN Zfill2(Str(key[c]))
                            ELSE Sanitize(key[c]))
    IN  <<"s","3",":","/","/">> \o S3_BUCKET \o <<"/">>
          \o Join(<<"/">>, <<prefix>> \o AsList([i \in 1..Len(PARTITION_COLUMNS) |->
                                                  segment(PARTITION_COLUMNS[i])]))
          \o <<"/">> \o FILE_NAME

\* C24: the path create_s3_path builds for a partition key has, after the
\* prefix, one segment column=value for each configured partition column in
\* the configured order, with the sanitized value of that column (the sentinel
\* where the key has the sentinel), then year=, month= and the file name
C24_PathHasOneSegmentPerColumn ==
    PathsReturned =>
        /\ ret.path1 = HivePath(arg.key1, S3_PREFIX)
        /\ ret.path2 = HivePath(arg.key2, S3_PREFIX)

-----------------------------------------------------------------------------
(* The state partition key of extract_partition_keys *)

\* the value of column c in row i of df, None if df has no such column
Cell(df, i, c) == IF HasCol(df, c) THEN df.rows[i][c] ELSE None

\* v, or the sentinel for a null
OrSentinel(v) == IF v = None THEN NULL_SENTINEL ELSE v

\* C25 as stated: record by record, state is state_geo if that is non-null,
\* else the state of the fact table if the record has one, else the sentinel
C25_Original ==
    (KeysReturned /\ ~ExtractRaises(arg.enriched_df)) =>
        \A i \in 1..Len(ret.rows) :
            ret.rows[i].state =
                IF Cell(arg.enriched_df, i, "state_geo") # None
                THEN Cell(arg.enriched_df, i, "state_geo")
                ELSE OrSentinel(Cell(arg.enriched_df, i, "state"))

\* C25, amended: the source of state is chosen per frame, not per record. If
\* the enriched frame has a state_geo column, the state of a record is its
\* state_geo, and the sentinel when that is null, whatever the fact table says;
\* the state of the fact table is used only when the frame has no state_geo
\* column, and the sentinel when there is neither column or the value is null.
\* When the extraction raises, the state of every record is the sentinel.
C25_StateSourceChosenPerFrame ==
    KeysReturned =>
        \A i \in 1..Len(ret.rows) :
            ret.rows[i].state =
                IF ExtractRaises(arg.enriched_df) THEN NULL_SENTINEL
                ELSE IF HasCol(arg.enriched_df, "state_geo")
                THEN OrSentinel(arg.enriched_df.rows[i].state_geo)
                ELSE OrSentinel(Cell(arg.enriched_df, i, "state"))

\* a record with a null state_geo and a state in the fact table got the sentinel
C25_Witness ==
    /\ KeysReturned
    /\ ~ExtractRaises(arg.enriched_df)
    /\ HasCol(arg.enriched_df, "state_geo")
    /\ arg.enriched_df.rows[1].state_geo = None
    /\ Cell(arg.enriched_df, 1, "state") = <<"G","A">>
    /\ ret.rows[1].state = NULL_SENTINEL

-----------------------------------------------------------------------------
(* The year and month partition keys of extract_partition_keys *)

\* ym is a string of the form YYYY-MM
WellFormedYearMonth(ym) ==
    /\ ym # None
    /\ Len(ym) = 7
    /\ ym[5] = "-"
    /\ \A k \in {1, 2, 3, 4, 6, 7} : \E d \in 0..9 : ym[k] = Digit(d)

\* C26: year and month are the two components of a well-formed YYYY-MM
\* year_month, and both are the sentinel when year_month is null, absent or
\* not of that form; they are never empty or a part of a malformed value
C26_YearMonthComponentsOrSentinel ==
    KeysReturned =>
        \A i \in 1..Len(ret.rows) :
            \A ym \in {Cell(arg.enriched_df, i, "year_month")} :
                /\ (WellFormedYearMonth(ym) /\ ~ExtractRaises(arg.enriched_df)) =>
                      /\ ret.rows[i].year = SubSeq(ym, 1, 4)
                      /\ ret.rows[i].month = SubSeq(ym, 6, 7)
                /\ ~WellFormedYearMonth(ym) =>
                      /\ ret.rows[i].year = NULL_SENTINEL
                      /\ ret.rows[i].month = NULL_SENTINEL

\* the same for the well-formed, null and absent values only
YearMonthOfHandledInput ==
    (KeysReturned /\ \/ ~HasCol(arg.enriched_df, "year_month")
                     \/ arg.enriched_df.rows[1].year_month = None
                     \/ WellFormedYearMonth(arg.enriched_df.rows[1].year_month))
        => C26_YearMonthComponentsOrSentinel

-----------------------------------------------------------------------------
(* The memory monitor of the chunk loops of run_pipeline *)

\* an iteration of a chunk loop of the run has ended
ChunkEnded == pc = "etl1" /\ etl1_run.last_check.chunk >= 0

\* the reading of that iteration that a comparison uses, or would use
ComparedReading(check) == check.readings[Min(2, Len(check.readings))]

\* C27 as stated: after every chunk the memory read is compared with the
\* thresholds: above 70% of the limit the memory is reclaimed and read again,
\* the hard warning is logged exactly when that second reading is above 80%,
\* and a warning is logged when less than 0.5 GB is available
C27_Original ==
    ChunkEnded =>
        \A check \in {etl1_run.last_check} :
            \A memory \in {ComparedReading(check)} :
                /\ memory.process > 70 => Len(check.readings) = 3
                /\ "hard" \in check.logged <=>
                      /\ memory.process > 70
                      /\ Len(check.readings) = 3
                      /\ check.readings[3].process > 80
                /\ (Len(check.readings) >= 2 /\ memory.available < 5) =>
                      "low" \in check.logged

\* C27, amended: memory is read after every chunk, but compared with the
\* thresholds only after the chunks whose index is a multiple of five. Then,
\* above 70% of the limit "high" is logged, and if not, under 0.5 GB available
\* "low" is logged; in both cases "pressure" is logged, memory is reclaimed and
\* read again, and "hard" is logged exactly when that reading is above 80%.
\* After any other chunk nothing is compared and no warning is logged.
C27_ComparedEveryFifthChunk ==
    ChunkEnded =>
        \A check \in {etl1_run.last_check} :
            /\ Len(check.readings) >= 1
            /\ Len(check.readings) >= 2 <=> check.chunk % 5 = 0
            /\ Len(check.readings) = 1 => check.logged = {}
            /\ Len(check.readings) >= 2 =>
                  \A memory \in {check.readings[2]} :
                      /\ "high" \in check.logged <=> memory.process > 70
                      /\ "low" \in check.logged <=>
                            (memory.process <= 70 /\ memory.available < 5)
                      /\ "pressure" \in check.logged <=>
                            (memory.process > 70 \/ memory.available < 5)
                      /\ Len(check.readings) = 3 <=>
                            (memory.process > 70 \/ memory.available < 5)
                      /\ "hard" \in check.logged <=>
                            /\ Len(check.readings) = 3
                            /\ check.readings[3].process > 80

\* after the sixth chunk memory was above 70%, and still above 80% when read
\* again: all of "high", "pressure" and "hard" were logged
C27_Witness ==
    /\ ChunkEnded
    /\ etl1_run.last_check.chunk = 5
    /\ Len(etl1_run.last_check.readings) = 3
    /\ etl1_run.last_check.readings[2].process > 70
    /\ etl1_run.last_check.logged = {"high", "pressure", "hard"}

\* after the second chunk memory was above 70% and nothing was logged
UncheckedChunkReached ==
    /\ ChunkEnded
    /\ etl1_run.last_check.chunk = 1
    /\ etl1_run.last_check.readings[1].process > 70
    /\ etl1_run.last_check.logged = {}

-----------------------------------------------------------------------------
(* The file-removal retries: ScalableETL1.force_cleanup_existing_file and
   force_remove_file of cleanup_locked_files.py.  The file is "absent", "free"
   (os.remove succeeds) or "locked" (another process holds it: os.remove raises
   PermissionError); other processes can change that while a call runs. *)

\* largest max_retries; the defaults are 3 and 5
MaxRetries == 5

FILE_STATES == {"absent", "free", "locked"}

InitRemoval ==
    /\ AtRest
    /\ pc = "removal"
    /\ arg = <<>>
    /\ ret = <<>>
    /\ hashseed = 0
    /\ \E fn \in {"force_cleanup_existing_file", "force_remove_file"},
          max_retries \in 1..MaxRetries, file \in FILE_STATES :
          removal = [fn          |-> fn,
                     max_retries |-> max_retries,
                     file        |-> file,
                     at          |-> "called",
                     attempt     |-> 0,       \* the loop variable
                     removals    |-> 0,       \* calls of os.remove
                     failed      |-> 0,       \* failed removals in a row
                     sleeps      |-> 0,       \* calls of time.sleep
                     result      |-> FALSE,   \* the value returned, once returned
                     disturbed   |-> FALSE]   \* another process changed the file

\* the call returns result
Return(r, result) == [r EXCEPT !.at = "returned", !.result = result]

\* os.remove(file_path) raised in iteration r.attempt of a loop whose handler
\* sleeps and goes on unless this was the last iteration, where it returns False
RemoveFailed(r) ==
    IF r.attempt < r.max_retries - 1
    THEN [r EXCEPT !.removals = @ + 1, !.failed = @ + 1, !.at = "sleep"]
    ELSE Return([r EXCEPT !.removals = @ + 1, !.failed = @ + 1], FALSE)

\* os.remove(file_path) succeeded: the call returns True
RemoveSucceeded(r) ==
    Return([r EXCEPT !.removals = @ + 1, !.failed = 0, !.file = "absent"], TRUE)

\* the source lines the steps share
RemovalStep(fn, at) ==
    /\ pc = "removal"
    /\ removal.fn = fn
    /\ removal.at = at
    /\ UNCHANGED <<etl3vars, etl1vars, runvars, pc, arg, ret, hashseed>>

\* force_cleanup_existing_file, for attempt in range(max_retries):
\* if file_path.exists(); a file that is not there ends the iteration, and
\* the loop falls through to return True after the last one
CleanupExists ==
    /\ RemovalStep("force_cleanup_existing_file", "called")
    /\ removal' =
          IF removal.file # "absent" THEN [removal EXCEPT !.at = "remove"]
          ELSE IF removal.attempt < removal.max_retries - 1
          THEN [removal EXCEPT !.attempt = @ + 1, !.failed = 0]
          ELSE Return(removal, TRUE)

\* force_cleanup_existing_file: os.remove(file_path); PermissionError of a
\* locked file and FileNotFoundError of a file that is gone are both OSError
CleanupRemove ==
    /\ RemovalStep("force_cleanup_existing_file", "remove")
    /\ removal' = IF removal.file = "free" THEN RemoveSucceeded(removal)
                  ELSE RemoveFailed(removal)

\* force_cleanup_existing_file: time.sleep(1), then the next iteration
CleanupSleep ==
    /\ RemovalStep("force_cleanup_existing_file", "sleep")
    /\ removal' = [removal EXCEPT !.sleeps = @ + 1, !.attempt = @ + 1,
                                  !.at = "called"]

\* force_remove_file: if not file_path.exists(): return True
RemoveExists ==
    /\ RemovalStep("force_remove_file", "called")
    /\ removal' = IF removal.file = "absent" THEN Return(removal, TRUE)
                  ELSE [removal EXCEPT !.at = "scan"]

\* what find_processes_using_file and the print of its result can give: no
\* process ("none"); processes whose names are printed ("named"); or a process
\* that has ended or denies access when proc.name() is called ("gone"):
\* NoSuchProcess or AccessDenied is raised inside the try
SCAN_RESULTS == {"none", "named", "gone"}

\* force_remove_file: find_processes_using_file; the scan matches the path
\* against the open files of every process, whether or not os.remove would
\* fail, and it can miss a process; if some are found and this is not the
\* last iteration the loop waits instead of removing. An exception of
\* proc.name() is caught by except Exception, which returns False: no
\* removal has been attempted in this iteration
RemoveScan ==
    /\ RemovalStep("force_remove_file", "scan")
    /\ \E processes \in SCAN_RESULTS :
          removal' = IF processes = "gone" THEN Return(removal, FALSE)
                     ELSE IF processes = "named"
                             /\ removal.attempt < removal.max_retries - 1
                     THEN [removal EXCEPT !.at = "sleep"]
                     ELSE [removal EXCEPT !.at = "remove"]

\* force_remove_file: os.remove(file_path); PermissionError is retried, any
\* other exception, as FileNotFoundError of a file that is gone, returns False
RemoveRemove ==
    /\ RemovalStep("force_remove_file", "remove")
    /\ removal' =
          CASE removal.file = "free"   -> RemoveSucceeded(removal)
            [] removal.file = "locked" -> RemoveFailed(removal)
            [] removal.file = "absent" ->
                   Return([removal EXCEPT !.removals = @ + 1, !.failed = @ + 1],
                          FALSE)

\* force_remove_file: time.sleep(2), then the next iteration
RemoveSleep ==
    /\ RemovalStep("force_remove_file", "sleep")
    /\ removal' = [removal EXCEPT !.sleeps = @ + 1, !.attempt = @ + 1,
                                  !.at = "scan"]

\* another process locks, releases, removes or creates the file while the
\* call is between two of its own steps: before a file_path.exists(), a scan,
\* an os.remove, or during a sleep
OtherProcess ==
    /\ pc = "removal"
    /\ removal.at \in {"called", "scan", "remove", "sleep"}
    /\ \E file \in FILE_STATES \ {removal.file} :
          removal' = [removal EXCEPT !.file = file, !.disturbed = TRUE]
    /\ UNCHANGED <<etl3vars, etl1vars, runvars, pc, arg, ret, hashseed>>

NextRemoval ==
    \/ CleanupExists \/ CleanupRemove \/ CleanupSleep
    \/ RemoveExists \/ RemoveScan \/ RemoveRemove \/ RemoveSleep
    \/ OtherProcess

SpecRemoval == InitRemoval /\ [][NextRemoval]_vars

\* a removal call has returned
RemovalReturned == pc = "removal" /\ removal.at = "returned"

\* what the sentence says of a call that has returned
RetryContract(r) ==
    /\ r.removals <= r.max_retries
    /\ r.attempt < r.max_retries
    /\ r.sleeps <= r.attempt
    /\ r.result <=> r.file = "absent"
    /\ r.failed = r.max_retries => ~r.result

\* C28: both retries end after at most max_retries removal attempts, sleep
\* only between attempts, return True exactly when the file is absent on
\* return, and return False after max_retries failed attempts in a row
C28_BoundedRetryReportsAbsence ==
    RemovalReturned => RetryContract(removal)

\* the same for the calls during which no other process touched the file
UndisturbedRemovalKeepsContract ==
    (RemovalReturned /\ ~removal.disturbed) => RetryContract(removal)

\* all but the report: the bounds on attempts and sleeps hold for every call
RetryIsBounded ==
    pc = "removal" =>
        /\ removal.removals <= removal.max_retries
        /\ removal.attempt < removal.max_retries
        /\ removal.sleeps <= removal.attempt
        /\ (RemovalReturned /\ removal.result) => removal.file = "absent"
        /\ (RemovalReturned /\ removal.failed = removal.max_retries) =>
              ~removal.result

-----------------------------------------------------------------------------
(* The staging paths of one run, and the outputs of a run that raised *)

\* the tables the loop over a file stages
TablesOf(file) == IF file = "rates" THEN RATES_TABLES \cup {"fact_rate"}
                  ELSE PROVIDERS_TABLES

\* the rows of an input file
FileRows(file) == IF file = "rates" THEN rates_file ELSE providers_file

\* the rows the iteration of slice s staged for table: the frame handed to
\* write_chunk_to_temp
StagedBy(s, table) ==
    RowsFor(s.file, SliceRows(FileRows(s.file), s.chunk_start, s.height),
            s.chunk_start, table)

\* the write_chunk_to_temp calls of the run so far that wrote a file, as
\* <<number of the slice, table>>
StagingWrites ==
    { w \in (1..Len(etl1_run.slices)) \X Range(OUTPUT_TABLES) :
        /\ w[2] \in TablesOf(etl1_run.slices[w[1]].file)
        /\ StagedBy(etl1_run.slices[w[1]], w[2]) # <<>> }

\* the staging path of a write: the table and the chunk index of its loop
StagingPath(w) ==
    <<w[2], etl1_run.slices[w[1]].chunk_start \div etl1_run.chunk_size>>

\* C29: no two write_chunk_to_temp calls of one run target the same staging
\* path, and every row staged during the run for a table is in the final file
\* of that table once the run has returned
C29_NoStagedDataOverwritten ==
    (pc = "etl1" /\ etl1_run.pc \in {"rates", "providers", "returned"}) =>
        \A writes \in {StagingWrites} :
            /\ \A w1, w2 \in writes : StagingPath(w1) = StagingPath(w2) => w1 = w2
            /\ etl1_run.pc = "returned" =>
                  \A w \in writes :
                      Range(StagedBy(etl1_run.slices[w[1]], w[2]))
                          \subseteq RowsOfTable(outputs, w[2])

\* the same for every table but dim_provider_group, which both loops stage
OtherTablesKeepStagedRows ==
    Etl1Returned =>
        \A w \in StagingWrites :
            w[2] # "dim_provider_group" =>
                Range(StagedBy(etl1_run.slices[w[1]], w[2]))
                    \subseteq RowsOfTable(outputs, w[2])

\* C30: a run_pipeline call that raises because an input file is missing
\* leaves every output file as the call found it, force_cleanup set or not
C30_FailedRunLeavesOutputs ==
    (pc = "etl1" /\ InputMissing /\ etl1_run.pc = "raised") =>
        outputs = etl1_run.before

\* the same for the runs without force_cleanup
FailedRunWithoutCleanupLeavesOutputs ==
    (pc = "etl1" /\ InputMissing /\ etl1_run.pc = "raised"
        /\ ~etl1_run.force_cleanup) => outputs = etl1_run.before

====
